---- MODULE Spec2Model ----
(***************************************************************************)
(* ThreadLine mail ingestion: the sync engine (mail/sync.rs), the IMAP     *)
(* session it drives (mail/imap_client.rs), the message parser             *)
(* (mail/parser.rs), the project classifier (project/classifier.rs) and    *)
(* the account reset and settings commands (commands/sync.rs,              *)
(* commands/settings.rs) over the SQLite store (storage/database.rs).      *)
(*                                                                         *)
(* Text is modelled as a sequence of characters, a character being a       *)
(* one-symbol string; the multi-byte characters of the prefix list are     *)
(* the tokens "U+56DE" "U+590D" "U+8F6C" "U+53D1" (3 bytes each in UTF-8). *)
(***************************************************************************)
EXTENDS Integers, Sequences, FiniteSets, TLC

\* ------------------------------------------------------------------ bounds

\* Highest UID the server assigns in a mailbox.
MaxUid == 3
\* Commands (sync runs, classify and reset calls) started in one behaviour.
MaxCommands == 2
\* Calls of one function (parse_email, get_timeline) on one input.
MaxCalls == 2
\* Reply/forward prefixes in front of one subject.
MaxPrefixes == 3
\* Challenges the server sends in one SASL exchange.
MaxChallenges == 3

\* ------------------------------------------------------- program constants

\* sync.rs: max_sync_count >= 999999 means "sync all".
SyncAllSentinel == 999999
\* sync.rs: get_max_sync_count().unwrap_or(100); database.rs: DEFAULT 100.
DefaultMaxSyncCount == 100
\* classifier.rs: datetime('now', '-30 days').
RecentDays == 30
\* classifier.rs: safe_truncate(&normalized, 100).
MaxSubjectBytes == 100

\* ------------------------------------------------------------------- text

Max(S) == CHOOSE x \in S : \A y \in S : y <= x

CJK == {"U+56DE", "U+590D", "U+8F6C", "U+53D1"}

\* str::len of one character in UTF-8.
ByteLen(c) == IF c \in CJK THEN 3 ELSE 1

RECURSIVE Bytes(_)
Bytes(s) == IF s = <<>> THEN 0 ELSE ByteLen(Head(s)) + Bytes(Tail(s))

IsWhite(c) == c \in {" ", "\t"}

RECURSIVE TrimStart(_)
TrimStart(s) ==
    IF s # <<>> /\ IsWhite(Head(s)) THEN TrimStart(Tail(s)) ELSE s

RECURSIVE TrimEnd(_)
TrimEnd(s) ==
    IF s # <<>> /\ IsWhite(s[Len(s)])
    THEN TrimEnd(SubSeq(s, 1, Len(s) - 1))
    ELSE s

\* str::trim
Trim(s) == TrimEnd(TrimStart(s))

\* The prefix list of normalize_subject, in its order.
Prefixes ==
    << <<"R", "e", ":">>, <<"R", "E", ":">>, <<"F", "w", "d", ":">>,
       <<"F", "W", "D", ":">>, <<"F", "w", ":">>,
       <<"U+56DE", "U+590D", ":">>, <<"U+8F6C", "U+53D1", ":">> >>

StartsWith(s, p) == Len(p) <= Len(s) /\ SubSeq(s, 1, Len(p)) = p

\* str::strip_prefix, on a string known to start with p.
StripPrefix(s, p) == SubSeq(s, Len(p) + 1, Len(s))

\* A normalize_subject that strips one prefix and does not look again.
StripOnce(s) ==
    LET t  == Trim(s)
        ms == {i \in 1..Len(Prefixes) : StartsWith(t, Prefixes[i])}
    IN  IF ms = {}
        THEN s
        ELSE StripPrefix(t, Prefixes[CHOOSE i \in ms : \A j \in ms : i <= j])

\* The loop of normalize_subject: the first listed prefix of the trimmed
\* text is stripped, until none is one.
RECURSIVE StripLoop(_)
StripLoop(s) ==
    LET t  == Trim(s)
        ms == {i \in 1..Len(Prefixes) : StartsWith(t, Prefixes[i])}
    IN  IF ms = {}
        THEN s
        ELSE StripLoop(StripPrefix(t, Prefixes[CHOOSE i \in ms : \A j \in ms : i <= j]))

\* safe_truncate: the longest prefix that ends on a character boundary at
\* or before max_bytes.
RECURSIVE safe_truncate(_, _)
safe_truncate(s, max_bytes) ==
    IF Bytes(s) <= max_bytes
    THEN s
    ELSE safe_truncate(SubSeq(s, 1, Len(s) - 1), max_bytes)

normalize_subject(subject) ==
    safe_truncate(Trim(StripLoop(subject)), MaxSubjectBytes)

\* SQLite's LIKE folds the case of ASCII letters only.
Fold(c) ==
    CASE c = "A" -> "a" [] c = "B" -> "b" [] c = "C" -> "c" [] c = "D" -> "d"
      [] c = "E" -> "e" [] c = "F" -> "f" [] c = "R" -> "r" [] c = "W" -> "w"
      [] OTHER -> c

\* SQLite: str LIKE pat. '%' matches any run of characters, '_' exactly one
\* character, any other character itself up to ASCII case; no ESCAPE.
RECURSIVE Like(_, _)
Like(str, pat) ==
    IF pat = <<>> THEN str = <<>>
    ELSE IF Head(pat) = "%"
         THEN Like(str, Tail(pat)) \/ (str # <<>> /\ Like(Tail(str), pat))
    ELSE IF str = <<>> THEN FALSE
    ELSE IF Head(pat) = "_" THEN Like(Tail(str), Tail(pat))
    ELSE Fold(Head(pat)) = Fold(Head(str)) /\ Like(Tail(str), Tail(pat))

\* format!("%{}%", normalized_subject)
LikePattern(normalized_subject) == <<"%">> \o normalized_subject \o <<"%">>


\* uid.to_string() on a u32, as decimal digits.
Digit(d) == CASE d = 0 -> "0" [] d = 1 -> "1" [] d = 2 -> "2" [] d = 3 -> "3"
              [] d = 4 -> "4" [] d = 5 -> "5" [] d = 6 -> "6" [] d = 7 -> "7"
              [] d = 8 -> "8" [] d = 9 -> "9"

RECURSIVE UidToString(_)
UidToString(n) ==
    IF n < 10 THEN <<Digit(n)>> ELSE UidToString(n \div 10) \o <<Digit(n % 10)>>

DigitVal(c) == CHOOSE d \in 0..9 : Digit(d) = c

\* SQLite: CAST(text AS INTEGER), the longest decimal prefix (0 when none).
RECURSIVE CastInteger(_, _)
CastInteger(s, acc) ==
    IF s = <<>> \/ ~(\E d \in 0..9 : Digit(d) = Head(s))
    THEN acc
    ELSE CastInteger(Tail(s), 10 * acc + DigitVal(Head(s)))

\* ----------------------------------------------------------------- options

\* Option<T> and a nullable column: None is <<>>, Some(v) is <<v>>.
None == <<>>
Some(v) == <<v>>
Unwrap(o) == o[1]

\* ---------------------------------------------------------- the mail server

Accounts == {1, 2}
\* The UIDs the server may assign in an account's mailbox. Account 2's INBOX
\* holds its one message from the start.
UIDs(a) == IF a = 1 THEN 1..MaxUid ELSE {1}

\* The classifier's 'now', and the date of a message, in days.
Today == RecentDays + 20

\* What the server holds under UID u of account a's INBOX (RFC 822 bytes, as
\* the headers and parts the parser reads). Account 1 holds a message, a
\* message of another subject, and a reply in the thread of the first whose
\* subject has a LIKE wildcard; account 2 a copy of account 1's second
\* message; every other UID a message without Message-ID, Subject and From.
Raw(a, u) ==
    CASE a = 1 /\ u = 1 ->
           [message_id |-> Some("m1"), references |-> <<>>, in_reply_to |-> None,
            subject |-> Some(<<"a", "b">>), from |-> Some("ann"),
            date |-> Today - 2, attachments |-> 1]
      [] a = 1 /\ u = 2 ->
           [message_id |-> Some("m2"), references |-> <<>>, in_reply_to |-> None,
            subject |-> Some(<<"c", "d">>), from |-> Some("bob"),
            date |-> Today - 1, attachments |-> 0]
      [] a = 1 /\ u = 3 ->
           [message_id |-> Some("m3"), references |-> <<"m1", "m2">>,
            in_reply_to |-> Some("m2"),
            subject |-> Some(<<"R", "e", ":", " ", "c", "_">>), from |-> Some("ann"),
            date |-> Today, attachments |-> 2]
      [] a = 2 /\ u = 1 ->
           [message_id |-> Some("m2"), references |-> <<>>, in_reply_to |-> None,
            subject |-> Some(<<"c", "d">>), from |-> Some("bob"),
            date |-> Today - 1, attachments |-> 0]
      [] OTHER ->
           [message_id |-> None, references |-> <<>>, in_reply_to |-> None,
            subject |-> None, from |-> None,
            date |-> Today, attachments |-> 0]

\* ImapConnection::select_folder: the EXISTS count of the mailbox.
select_folder(mbox) == Cardinality(mbox)

\* format!("{}:*", start_uid): a UID range "<start>:*".
RangeFrom(start) == <<UidToString(start), ":", "*">>

\* The server's reading of the range text: its start number.
RangeStart(r) == CastInteger(r[1], 0)

RECURSIVE SortedSeq(_)
SortedSeq(S) ==
    IF S = {} THEN <<>>
    ELSE LET m == CHOOSE x \in S : \A y \in S : x <= y
         IN  <<m>> \o SortedSeq(S \ {m})

\* ImapConnection::fetch_uids over UID FETCH <n>:* UID. RFC 3501 6.4.8: "*"
\* is the highest UID of the mailbox and n:* is the same as *:n, so the
\* answer always holds the highest UID, also when n is above it. The server
\* answers in ascending UID order.
fetch_uids(mbox, r) ==
    IF mbox = {} THEN <<>>
    ELSE LET n  == RangeStart(r)
             hi == Max(mbox)
             lo == IF n <= hi THEN n ELSE hi
         IN  SortedSeq({u \in mbox : lo <= u /\ u <= Max({n, hi})})

\* ------------------------------------------------------------------ parser

\* format!("generated-{}", chrono::Utc::now().timestamp())
GeneratedId(now) == CASE now = 1 -> "generated-1" [] now = 2 -> "generated-2"
                      [] OTHER -> "generated-n"

\* Seconds of the wall clock a parse may happen at.
Times == {1, 2}

\* parse_email: the fields of ParsedEmail the store keeps. A missing
\* Message-ID is synthesized from the clock, a missing subject and sender
\* get their defaults.
parse_email(raw, now) ==
    [message_id  |-> IF raw.message_id = None THEN GeneratedId(now)
                     ELSE Unwrap(raw.message_id),
     subject     |-> IF raw.subject = None
                     THEN <<"(", "N", "o", " ", "S", "u", "b", "j", "e", "c", "t", ")">>
                     ELSE Unwrap(raw.subject),
     from        |-> IF raw.from = None THEN "Unknown" ELSE Unwrap(raw.from),
     date        |-> raw.date,
     attachments |-> raw.attachments,
     in_reply_to |-> raw.in_reply_to,
     references  |-> raw.references]

\* A thread key that prefers In-Reply-To to References.
generate_thread_id_reply_first(parsed) ==
    IF parsed.in_reply_to # None THEN Unwrap(parsed.in_reply_to)
    ELSE IF parsed.references # <<>> THEN Head(parsed.references)
    ELSE parsed.message_id

\* generate_thread_id: first References entry, else In-Reply-To, else the
\* message's own identifier.
generate_thread_id(parsed) ==
    IF parsed.references # <<>> THEN Head(parsed.references)
    ELSE IF parsed.in_reply_to # None THEN Unwrap(parsed.in_reply_to)
    ELSE parsed.message_id

\* ------------------------------------------------------------------- store

\* database.rs opens the pool with sqlx's default SQLite options, under which
\* PRAGMA foreign_keys is ON: the REFERENCES clauses of the schema are
\* enforced (NO ACTION, checked when a statement ends).

\* INTEGER PRIMARY KEY without AUTOINCREMENT: one above the largest row id.
NextRowId(rows) == IF rows = {} THEN 1 ELSE Max({r.id : r \in rows}) + 1

\* get_last_synced_uid: SELECT MAX(CAST(raw_path AS INTEGER)) ... WHERE
\* account_id = ?, the NULL of an empty table read as 0.
get_last_synced_uid(E, a) ==
    LET S == {CastInteger(e.raw_path, 0) : e \in {r \in E : r.account_id = a}}
    IN  IF S = {} THEN 0 ELSE Max(S)

\* The row save_email binds.
EmailRow(E, a, uid, parsed) ==
    [id         |-> NextRowId(E),
     message_id |-> parsed.message_id,
     account_id |-> a,
     thread_id  |-> Some(generate_thread_id(parsed)),
     project_id |-> None,
     subject    |-> Some(parsed.subject),
     sender     |-> Some(parsed.from),
     date       |-> parsed.date,
     raw_path   |-> UidToString(uid)]

\* The rows INSERT OR REPLACE removes: those holding the new row's
\* message_id (UNIQUE over the whole table).
Replaced(E, parsed) == {e \in E : e.message_id = parsed.message_id}

\* An INSERT OR REPLACE that is not held back by the attachments of the row
\* it removes.
save_email_unchecked(E, A, a, uid, parsed) ==
    [ok |-> TRUE,
     emails |-> (E \ Replaced(E, parsed)) \cup {EmailRow(E, a, uid, parsed)}]

\* save_email: INSERT OR REPLACE INTO emails. The statement fails, and changes
\* nothing, when an attachment still references a row it would remove.
save_email(E, A, a, uid, parsed) ==
    LET old == Replaced(E, parsed)
    IN  IF \E t \in A : \E e \in old : t.email_id = e.id
        THEN [ok |-> FALSE, emails |-> E]
        ELSE [ok |-> TRUE, emails |-> (E \ old) \cup {EmailRow(E, a, uid, parsed)}]

\* get_email_id_by_message_id (fetch_one): the matching row ids.
get_email_id_by_message_id(E, message_id, a) ==
    {e.id : e \in {r \in E : r.message_id = message_id /\ r.account_id = a}}

\* save_attachment: the row INSERTed for one attachment of email_id.
AttachmentRow(A, email_id, index) ==
    [id |-> NextRowId(A), email_id |-> email_id, filename |-> index]

\* The first n attachments of a message saved in order.
RECURSIVE save_attachments(_, _, _)
save_attachments(A, email_id, n) ==
    IF n = 0 THEN A
    ELSE LET B == save_attachments(A, email_id, n - 1)
         IN  B \cup {AttachmentRow(B, email_id, n)}

\* -------------------------------------------------------------- classifier

Ok(v) == [ok |-> TRUE, val |-> v]
Err == [ok |-> FALSE, val |-> 0]

\* The storage calls of classify_email that may fail.
ClassifyFaults ==
    {"get_email_info", "find_project_by_thread", "find_project_by_subject",
     "create_project_for_email", "assign_email_to_project", "update_project_stats"}

\* A thread lookup that sees no assigned message of the thread.
find_project_by_thread_blind(E, thread_id) == {}

\* find_project_by_thread: the projects LIMIT 1 (no ORDER BY) may return.
find_project_by_thread(E, thread_id) ==
    {Unwrap(e.project_id) :
        e \in {r \in E : r.thread_id = Some(thread_id) /\ r.project_id # None}}

\* The rows find_project_by_subject's WHERE clause keeps.
SubjectMatches(E, normalized_subject) ==
    {e \in E : /\ e.project_id # None
               /\ e.date > Today - RecentDays
               /\ e.subject # None
               /\ Like(Unwrap(e.subject), LikePattern(normalized_subject))}

\* find_project_by_subject: ORDER BY date DESC LIMIT 1, any of the newest.
find_project_by_subject(E, normalized_subject) ==
    LET M == SubjectMatches(E, normalized_subject)
    IN  {Unwrap(e.project_id) : e \in {r \in M : \A o \in M : o.date <= r.date}}

\* create_project_for_email: the project name.
ProjectName(email) ==
    IF email.subject # None
    THEN normalize_subject(Unwrap(email.subject))
    ELSE <<"Project from ",
           IF email.sender # None THEN Unwrap(email.sender) ELSE "Unknown">>

\* create_project_for_email: the row INSERTed.
create_project_for_email(P, email) ==
    [id |-> NextRowId(P), name |-> ProjectName(email),
     email_count |-> 0, attachment_count |-> 0]

\* update_project_stats: both counters of project_id counted anew.
update_project_stats(E, P, A, project_id) ==
    {IF p.id # project_id THEN p
     ELSE [p EXCEPT
             !.email_count =
                 Cardinality({e \in E : e.project_id = Some(project_id)}),
             !.attachment_count =
                 Cardinality({t \in A : \E e \in E :
                     e.project_id = Some(project_id) /\ t.email_id = e.id})]
     : p \in P}

\* assign_email_to_project: UPDATE emails, then update_project_stats; f names
\* the storage call that fails, if any.
assign_email_to_project(E, P, A, email_id, project_id, f) ==
    LET E2 == {IF e.id = email_id THEN [e EXCEPT !.project_id = Some(project_id)]
               ELSE e : e \in E}
    IN  IF f = "assign_email_to_project"
        THEN [emails |-> E, projects |-> P, ret |-> Err]
        ELSE IF f = "update_project_stats"
        THEN [emails |-> E2, projects |-> P, ret |-> Err]
        ELSE [emails |-> E2,
              projects |-> update_project_stats(E2, P, A, project_id),
              ret |-> Ok(project_id)]

\* classify_email, step 5: a new project, and the email assigned to it.
ClassifyCreate(E, P, A, email, f) ==
    IF f = "create_project_for_email"
    THEN {[emails |-> E, projects |-> P, ret |-> Err]}
    ELSE LET p == create_project_for_email(P, email)
         IN  {assign_email_to_project(E, P \cup {p}, A, email.id, p.id, f)}

\* classify_email, step 4: a project found by subject, else step 5.
ClassifyBySubject(E, P, A, email, f) ==
    IF email.subject = None
    THEN ClassifyCreate(E, P, A, email, f)
    ELSE IF f = "find_project_by_subject"
    THEN {[emails |-> E, projects |-> P, ret |-> Err]}
    ELSE LET found == find_project_by_subject(E, normalize_subject(Unwrap(email.subject)))
         IN  IF found # {}
             THEN {assign_email_to_project(E, P, A, email.id, q, f) : q \in found}
             ELSE ClassifyCreate(E, P, A, email, f)

\* A classifier that consults the subject before the thread.
ClassifyBySubjectFirst(E, P, A, email, f) == ClassifyBySubject(E, P, A, email, f)

\* classify_email, step 3: a project found by thread, else step 4.
ClassifyByThread(E, P, A, email, f) ==
    IF email.thread_id = None
    THEN ClassifyBySubject(E, P, A, email, f)
    ELSE IF f = "find_project_by_thread"
    THEN {[emails |-> E, projects |-> P, ret |-> Err]}
    ELSE LET found == find_project_by_thread(E, Unwrap(email.thread_id))
         IN  IF found # {}
             THEN {assign_email_to_project(E, P, A, email.id, q, f) : q \in found}
             ELSE ClassifyBySubject(E, P, A, email, f)

\* A classifier without the early return for an email that has a project.
classify_email_again(E, P, A, email_id, f) ==
    IF f = "get_email_info" \/ ~(\E e \in E : e.id = email_id)
    THEN {[emails |-> E, projects |-> P, ret |-> Err]}
    ELSE ClassifyByThread(E, P, A, CHOOSE e \in E : e.id = email_id, f)

\* classify_email: the stores and results a call may end with, when the
\* storage call f fails ("none": no call fails).
classify_email(E, P, A, email_id, f) ==
    IF f = "get_email_info" \/ ~(\E e \in E : e.id = email_id)
    THEN {[emails |-> E, projects |-> P, ret |-> Err]}
    ELSE LET email == CHOOSE e \in E : e.id = email_id
         IN  IF email.project_id # None
             THEN {[emails |-> E, projects |-> P, ret |-> Ok(Unwrap(email.project_id))]}
             ELSE ClassifyByThread(E, P, A, email, f)

\* -------------------------------------------------------------- sync engine

\* sync_account, step 4: whether the configured cap means "sync all".
SyncAll(max_sync_count) == max_sync_count >= SyncAllSentinel

\* A first-sync range that starts one UID too low.
ComputeRangeOffByOne(cursor, mailbox_total, cap) ==
    IF cursor = 0
    THEN IF SyncAll(cap) THEN RangeFrom(1)
         ELSE IF mailbox_total > cap THEN RangeFrom(mailbox_total - cap)
         ELSE RangeFrom(1)
    ELSE RangeFrom(cursor + 1)

\* sync_account, step 5: the UID range requested from the server.
ComputeRange(cursor, mailbox_total, cap) ==
    IF cursor = 0
    THEN IF SyncAll(cap) THEN RangeFrom(1)
         ELSE IF mailbox_total > cap THEN RangeFrom((mailbox_total - cap) + 1)
         ELSE RangeFrom(1)
    ELSE RangeFrom(cursor + 1)

\* Vec::reverse
RECURSIVE Reverse(_)
Reverse(q) == IF q = <<>> THEN <<>> ELSE Reverse(Tail(q)) \o <<Head(q)>>

\* Vec::truncate
Truncate(q, n) == IF Len(q) > n THEN SubSeq(q, 1, n) ELSE q

\* A limit that truncates without reversing: the oldest max_sync_count stay.
LimitUidsOldest(enumerated, cursor, cap) ==
    IF ~SyncAll(cap) /\ cursor > 0 /\ Len(enumerated) > cap
    THEN Truncate(enumerated, cap)
    ELSE enumerated

\* sync_account, step 6: an incremental run over more than the cap keeps
\* the last max_sync_count of the enumerated UIDs, in their order.
LimitUids(enumerated, cursor, cap) ==
    IF ~SyncAll(cap) /\ cursor > 0 /\ Len(enumerated) > cap
    THEN Reverse(Truncate(Reverse(enumerated), cap))
    ELSE enumerated

\* The values update_sync_settings is called with.
CapValues == {1, DefaultMaxSyncCount, SyncAllSentinel}

VARIABLES
    mailbox,         \* server: the UIDs of each account's INBOX
    max_sync_setting,\* sync_settings.max_sync_count
    emails,          \* table emails
    projects,        \* table projects
    attachments,     \* table attachments
    pc,              \* idle, a state of the running sync, or Returned
    acct,            \* sync_account: account_id
    total,           \* sync_account: total (EXISTS of the folder)
    last_uid,        \* sync_account: last_uid (the cursor)
    max_sync_count,  \* sync_account: max_sync_count
    range,           \* sync_account: range
    uids,            \* sync_account: uids_to_sync
    current,         \* sync_account: current
    step,            \* position in the loop body: next, classify, attach
    parsed,          \* loop body: parsed (None outside)
    email_id,        \* loop body: email_id (0 outside)
    skipped,         \* UIDs the run logged as failed and skipped, in order
    cret,            \* result of the last classify_email call
    ops,             \* session operations issued by the run, in order
    events,          \* sync-progress events emitted by the run, in order
    ret,             \* what the last command returned
    commands,        \* commands started
    faulted,         \* whether a failure (server, storage, file system) was injected
    raw_data,        \* parse_email on its own: the raw message (None outside)
    parses,          \* parse_email on its own: the results for raw_data, in order
    subject_arg,     \* normalize_subject on its own: the argument (None outside)
    normalized,      \* normalize_subject on its own: the result (None before)
    milestones,      \* table milestones
    timelines,       \* get_timeline on its own: the results, in order
    auth,            \* connect: auth (None when connect is not called)
    conn_pc,         \* connect: the step that comes next
    conn_steps,      \* connect: the steps done and how each ended
    conn_result,     \* connect: the Result returned (None before)
    auth_string,     \* XOAuth2Authenticator: auth_string (None when there is none)
    first_call,      \* XOAuth2Authenticator: first_call
    responses,       \* XOAuth2Authenticator: the challenges and the answers given
    calls,           \* classify_email calls in progress at once: each one's position
    emitter,         \* EmailSyncer: event_emitter (None when the run has none)
    delivered        \* the sync-progress events the observer received, in order

\* The state of the sync engine, its store and its server.
syncvars == <<mailbox, max_sync_setting, emails, projects, attachments, pc, acct,
              total, last_uid, max_sync_count, range, uids, current, step, parsed,
              email_id, skipped, cret, ops, events, ret, commands, faulted>>
\* The state of the functions exercised on their own, outside a sync run.
parservars == <<raw_data, parses>>
normalizevars == <<subject_arg, normalized>>
timelinevars == <<milestones, timelines>>
connectvars ==
    <<auth, conn_pc, conn_steps, conn_result, auth_string, first_call, responses>>
classifyvars == <<calls>>
emitvars == <<emitter, delivered>>
units == <<parservars, normalizevars, timelinevars, connectvars, classifyvars, emitvars>>

vars == <<syncvars, units>>

store == <<emails, projects, attachments>>
server == <<mailbox>>
locals == <<acct, total, last_uid, max_sync_count, range, uids, current, step,
            parsed, email_id, skipped>>

NoRet == [op |-> "none", ok |-> TRUE, code |-> "", arg |-> 0, val |-> 0]
NoCret == [id |-> 0, ok |-> TRUE, val |-> 0]
Op(name, uid) == [op |-> name, uid |-> uid]
\* A progress event that reports the index before its increment.
ProgressFromZero(a, cur, tot, status) ==
    [account_id |-> a, current |-> IF status = "Syncing" THEN cur - 1 ELSE cur,
     total |-> tot, status |-> status]

Progress(a, cur, tot, status) ==
    [account_id |-> a, current |-> cur, total |-> tot, status |-> status]

InitSync ==
    /\ mailbox = [a \in Accounts |-> IF a = 1 THEN {} ELSE {1}]
    /\ max_sync_setting = DefaultMaxSyncCount
    /\ emails = {} /\ projects = {} /\ attachments = {}
    /\ pc = "idle" /\ acct = 0 /\ total = 0 /\ last_uid = 0
    /\ max_sync_count = 0 /\ range = <<>> /\ uids = <<>> /\ current = 0
    /\ step = "none" /\ parsed = None /\ email_id = 0 /\ skipped = <<>>
    /\ cret = NoCret /\ ops = <<>> /\ events = <<>> /\ ret = NoRet
    /\ commands = 0 /\ faulted = FALSE

InitParser == raw_data = None /\ parses = <<>>
InitNormalize == subject_arg = None /\ normalized = None
InitTimeline == milestones = {} /\ timelines = <<>>
InitConnect ==
    /\ auth = None /\ conn_pc = "idle" /\ conn_steps = <<>> /\ conn_result = None
    /\ auth_string = None /\ first_call = TRUE /\ responses = <<>>
InitClassify == calls = <<>>
InitEmit == emitter = None /\ delivered = <<>>
InitUnits ==
    InitParser /\ InitNormalize /\ InitTimeline /\ InitConnect /\ InitClassify /\ InitEmit

Init == InitSync /\ InitUnits

\* A behaviour has at most one injected failure.
Fault == ~faulted /\ faulted' = TRUE
NoFault == faulted' = faulted

\* ---- environment

\* The server assigns a new message a UID above every UID of the mailbox.
Deliver(a, u) ==
    /\ pc = "idle" /\ commands < MaxCommands
    /\ \A v \in mailbox[a] : v < u
    /\ mailbox' = [mailbox EXCEPT ![a] = @ \cup {u}]
    /\ UNCHANGED <<max_sync_setting, store, pc, locals, cret, ops, events, ret,
                   commands, faulted>>
    /\ UNCHANGED units

\* update_sync_settings
UpdateSyncSettings(c) ==
    /\ pc = "idle" /\ commands < MaxCommands
    /\ max_sync_setting # c
    /\ max_sync_setting' = c
    /\ UNCHANGED <<server, store, pc, locals, cret, ops, events, ret, commands, faulted>>
    /\ UNCHANGED units

\* ---- sync_account

\* sync_email_account calls sync_account for a stored account.
StartSync(a) ==
    /\ pc = "idle"
    /\ commands < MaxCommands
    /\ commands' = commands + 1
    /\ pc' = "Connecting"
    /\ acct' = a
    /\ UNCHANGED <<server, max_sync_setting, store, total, last_uid,
                   max_sync_count, range, uids, current, step, parsed, email_id,
                   skipped, cret, ops, events, ret, faulted>>
    /\ UNCHANGED units

\* An error return that drops the cause: every failure is reported as Generic.
FailWithoutCause(code) ==
    /\ Fault
    /\ pc' = "Failed"
    /\ ret' = [op |-> "sync", ok |-> FALSE, code |-> "Generic", arg |-> acct, val |-> 0]

\* An error handling that tries the connection again instead of returning.
FailReconnects(code) ==
    /\ Fault
    /\ pc' = "Connecting"
    /\ UNCHANGED ret

\* sync_account returns Err(code): no event, the session dropped.
Fail(code) ==
    /\ Fault
    /\ pc' = "Failed"
    /\ ret' = [op |-> "sync", ok |-> FALSE, code |-> code, arg |-> acct, val |-> 0]

\* ImapConnection::connect: TCP, TLS, greeting.
Connect ==
    /\ pc = "Connecting"
    /\ ops' = Append(ops, Op("connect", 0))
    /\ \/ pc' = "Authenticating" /\ NoFault /\ UNCHANGED ret
       \/ Fail("Network")
    /\ UNCHANGED <<server, max_sync_setting, store, locals, cret, events, commands>>
    /\ UNCHANGED units

\* ImapConnection::connect: login or XOAUTH2.
Authenticate ==
    /\ pc = "Authenticating"
    /\ ops' = Append(ops, Op("authenticate", 0))
    /\ \/ pc' = "Authenticated" /\ NoFault /\ UNCHANGED ret
       \/ Fail("Auth")
    /\ UNCHANGED <<server, max_sync_setting, store, locals, cret, events, commands>>
    /\ UNCHANGED units

\* conn.select_folder("INBOX")
SelectFolder ==
    /\ pc = "Authenticated"
    /\ ops' = Append(ops, Op("select", 0))
    /\ \/ /\ pc' = "FolderSelected" /\ NoFault /\ UNCHANGED ret
          /\ total' = select_folder(mailbox[acct])
       \/ Fail("Generic") /\ UNCHANGED total
    /\ UNCHANGED <<server, max_sync_setting, store, acct, last_uid,
                   max_sync_count, range, uids, current, step, parsed, email_id,
                   skipped, cret, events, commands>>
    /\ UNCHANGED units

\* sync_account, steps 3 to 5: the cursor, the cap (100 when the settings
\* cannot be read), the range.
RangeStep ==
    /\ pc = "FolderSelected"
    /\ \/ /\ NoFault
          /\ max_sync_count' = max_sync_setting
          /\ last_uid' = get_last_synced_uid(emails, acct)
          /\ range' = ComputeRange(last_uid', total, max_sync_count')
          /\ pc' = "RangeComputed" /\ UNCHANGED ret
       \/ /\ Fault
          /\ max_sync_setting # DefaultMaxSyncCount
          /\ max_sync_count' = DefaultMaxSyncCount
          /\ last_uid' = get_last_synced_uid(emails, acct)
          /\ range' = ComputeRange(last_uid', total, max_sync_count')
          /\ pc' = "RangeComputed" /\ UNCHANGED ret
       \/ Fail("Database") /\ UNCHANGED <<last_uid, max_sync_count, range>>
    /\ UNCHANGED <<server, max_sync_setting, store, acct, total, uids, current,
                   step, parsed, email_id, skipped, cret, ops, events, commands>>
    /\ UNCHANGED units

\* conn.fetch_uids(&range), then step 6.
FetchUids ==
    /\ pc = "RangeComputed"
    /\ ops' = Append(ops, Op("uid_fetch_uids", 0))
    /\ \/ /\ NoFault
          /\ uids' = LimitUids(fetch_uids(mailbox[acct], range), last_uid,
                               max_sync_count)
          /\ pc' = "Fetching" /\ step' = "next" /\ UNCHANGED ret
       \/ Fail("Generic") /\ UNCHANGED <<uids, step>>
    /\ UNCHANGED <<server, max_sync_setting, store, acct, total, last_uid,
                   max_sync_count, range, current, parsed, email_id, skipped,
                   cret, events, commands>>
    /\ UNCHANGED units

\* A loop whose Err arm returns the error: the failure of uid ends the run.
SkipMessageAborts(uid) ==
    /\ skipped' = Append(skipped, uid)
    /\ pc' = "Failed" /\ step' = "next"
    /\ parsed' = None /\ email_id' = 0

\* sync_account, the Err arm of the loop's match: the failure of uid is
\* logged and the loop continues with the next UID.
SkipMessage(uid) ==
    /\ skipped' = Append(skipped, uid)
    /\ pc' = "Fetching" /\ step' = "next"
    /\ parsed' = None /\ email_id' = 0

\* The loop body up to the classifier: the progress event, fetch_email,
\* parse_email, save_email, get_email_id_by_message_id. A failure of any of
\* them ends the message.
PersistMessage ==
    /\ pc = "Fetching" /\ step = "next" /\ current < Len(uids)
    /\ current' = current + 1
    /\ events' = Append(events, Progress(acct, current', Len(uids), "Syncing"))
    /\ ops' = Append(ops, Op("uid_fetch_body", uids[current']))
    /\ cret' = NoCret
    /\ \/ \* fetch_email fails ("Email <uid> not found"), or the body does
          \* not parse, or the INSERT fails
          /\ Fault
          /\ SkipMessage(uids[current'])
          /\ UNCHANGED emails
       \/ \E now \in Times :
            LET p == parse_email(Raw(acct, uids[current']), now)
                s == save_email(emails, attachments, acct, uids[current'], p)
                ids == get_email_id_by_message_id(s.emails, p.message_id, acct)
            IN  \/ /\ s.ok /\ NoFault
                   /\ emails' = s.emails
                   /\ parsed' = Some(p)
                   /\ email_id' = CHOOSE i \in ids : TRUE
                   /\ step' = "classify"
                   /\ UNCHANGED <<pc, skipped>>
                \/ \* the statement fails on a foreign key
                   /\ ~s.ok /\ NoFault
                   /\ SkipMessage(uids[current'])
                   /\ UNCHANGED emails
                \/ \* saved, but the row id cannot be read back
                   /\ s.ok /\ Fault
                   /\ emails' = s.emails
                   /\ SkipMessage(uids[current'])
    /\ UNCHANGED <<server, max_sync_setting, projects, attachments, acct,
                   total, last_uid, max_sync_count, range, uids, ret, commands>>
    /\ UNCHANGED units

\* The loop body: classifier.classify_email(email_id), an Err only logged.
ClassifyMessage ==
    /\ pc = "Fetching" /\ step = "classify"
    /\ \E f \in (IF faulted THEN {} ELSE ClassifyFaults) \cup {"none"} :
         \E o \in classify_email(emails, projects, attachments, email_id, f) :
            /\ (f = "none") = o.ret.ok
            /\ IF o.ret.ok THEN NoFault ELSE Fault
            /\ emails' = o.emails
            /\ projects' = o.projects
            /\ cret' = [id |-> email_id, ok |-> o.ret.ok, val |-> o.ret.val]
    /\ step' = "attach"
    /\ UNCHANGED <<server, max_sync_setting, attachments, pc, acct, total,
                   last_uid, max_sync_count, range, uids, current, parsed,
                   email_id, skipped, ops, events, ret, commands>>
    /\ UNCHANGED units

\* The loop body: save_attachment for each attachment in order; the first
\* failure (file system or INSERT) ends the message.
SaveAttachments ==
    /\ pc = "Fetching" /\ step = "attach"
    /\ \/ /\ NoFault
          /\ attachments' = save_attachments(attachments, email_id,
                                             Unwrap(parsed).attachments)
          /\ step' = "next" /\ parsed' = None /\ email_id' = 0
          /\ UNCHANGED <<pc, skipped>>
       \/ /\ Fault
          /\ \E k \in 1..Unwrap(parsed).attachments :
                attachments' = save_attachments(attachments, email_id, k - 1)
          /\ SkipMessage(uids[current])
    /\ UNCHANGED <<server, max_sync_setting, emails, projects, acct, total,
                   last_uid, max_sync_count, range, uids, current, cret, ops,
                   events, ret, commands>>
    /\ UNCHANGED units

\* A logout issued while UIDs of the list are still to be handled.
LogoutEarly ==
    /\ pc = "Fetching" /\ step = "next"
    /\ ops' = Append(ops, Op("logout", 0))
    /\ \/ pc' = "LoggedOut" /\ NoFault /\ UNCHANGED ret
       \/ Fail("Generic")
    /\ UNCHANGED <<server, max_sync_setting, store, locals, cret, events, commands>>
    /\ UNCHANGED units

\* A logout whose failure undoes the run: the account's rows of the run's
\* UIDs are deleted before the error is returned.
LogoutRollsBack ==
    /\ pc = "Fetching" /\ step = "next" /\ current = Len(uids)
    /\ ops' = Append(ops, Op("logout", 0))
    /\ \/ pc' = "LoggedOut" /\ NoFault /\ UNCHANGED <<ret, emails>>
       \/ /\ Fail("Generic")
          /\ emails' = {e \in emails :
                          ~(/\ e.account_id = acct
                            /\ \E i \in 1..Len(uids) :
                                  e.raw_path = UidToString(uids[i]))}
    /\ UNCHANGED <<server, max_sync_setting, projects, attachments, locals,
                   cret, events, commands>>
    /\ UNCHANGED units

\* conn.logout(), after the loop.
Logout ==
    /\ pc = "Fetching" /\ step = "next" /\ current = Len(uids)
    /\ ops' = Append(ops, Op("logout", 0))
    /\ \/ pc' = "LoggedOut" /\ NoFault /\ UNCHANGED ret
       \/ Fail("Generic")
    /\ UNCHANGED <<server, max_sync_setting, store, locals, cret, events, commands>>
    /\ UNCHANGED units

\* A completion that reports only the messages whose pipeline succeeded.
CompleteCountingSuccesses ==
    /\ pc = "LoggedOut"
    /\ LET n == Len(uids) - Len(skipped)
       IN  /\ events' = Append(events, Progress(acct, n, n, "Completed"))
           /\ ret' = [op |-> "sync", ok |-> TRUE, code |-> "completed",
                      arg |-> acct, val |-> n]
    /\ pc' = "Completed"
    /\ UNCHANGED <<server, max_sync_setting, store, locals, cret, ops, commands, faulted>>
    /\ UNCHANGED units

\* The Completed event and Ok(SyncProgress).
Complete ==
    /\ pc = "LoggedOut"
    /\ events' = Append(events, Progress(acct, Len(uids), Len(uids), "Completed"))
    /\ ret' = [op |-> "sync", ok |-> TRUE, code |-> "completed", arg |-> acct,
               val |-> Len(uids)]
    /\ pc' = "Completed"
    /\ UNCHANGED <<server, max_sync_setting, store, locals, cret, ops, commands, faulted>>
    /\ UNCHANGED units

\* The caller has the result and the call's locals are gone; the next
\* command may start.
Return ==
    /\ pc \in {"Completed", "Failed", "Returned"}
    /\ pc' = "idle"
    /\ acct' = 0 /\ total' = 0 /\ last_uid' = 0 /\ max_sync_count' = 0
    /\ range' = <<>> /\ uids' = <<>> /\ current' = 0 /\ step' = "none"
    /\ parsed' = None /\ email_id' = 0 /\ skipped' = <<>>
    /\ cret' = NoCret /\ ops' = <<>> /\ events' = <<>> /\ ret' = NoRet
    /\ UNCHANGED <<server, max_sync_setting, store, commands, faulted>>
    /\ UNCHANGED units

\* ---- commands

\* ProjectClassifier::classify_email called for a stored email.
ClassifyCommand(id) ==
    /\ pc = "idle" /\ commands < MaxCommands /\ commands' = commands + 1
    /\ \E f \in (IF faulted THEN {} ELSE ClassifyFaults) \cup {"none"} :
         \E o \in classify_email(emails, projects, attachments, id, f) :
            /\ (f = "none") = o.ret.ok
            /\ IF o.ret.ok THEN NoFault ELSE Fault
            /\ emails' = o.emails
            /\ projects' = o.projects
            /\ cret' = [id |-> id, ok |-> o.ret.ok, val |-> o.ret.val]
            /\ ret' = [op |-> "classify", ok |-> o.ret.ok, code |-> "", arg |-> id,
                       val |-> o.ret.val]
    /\ pc' = "Returned"
    /\ UNCHANGED <<server, max_sync_setting, attachments, locals, ops, events>>
    /\ UNCHANGED units

\* An account id no row of accounts holds.
UnknownAccount == 0

\* reset_account_sync: DELETE FROM emails (refused while an attachment
\* references one of the rows), DELETE FROM projects over the account's
\* remaining emails, UPDATE accounts SET last_synced_uid (a column the schema
\* of database.rs does not create, so the statement fails).
ResetProjects(E, P, a) ==
    {p \in P : \E e \in E : e.account_id = a /\ e.project_id = Some(p.id)}

reset_account_sync(E, P, A, a) ==
    LET mine == {e \in E : e.account_id = a}
        E2   == E \ mine
        gone == ResetProjects(E2, P, a)
    IN  IF a \notin Accounts
        THEN [emails |-> E, projects |-> P, ok |-> FALSE, code |-> "NOT_FOUND"]
        ELSE IF \E t \in A : \E e \in mine : t.email_id = e.id
        THEN [emails |-> E, projects |-> P, ok |-> FALSE, code |-> "DB_ERROR"]
        ELSE IF \E e \in E2 : \E p \in gone : e.project_id = Some(p.id)
        THEN [emails |-> E2, projects |-> P, ok |-> FALSE, code |-> "DB_ERROR"]
        ELSE [emails |-> E2, projects |-> P \ gone, ok |-> FALSE, code |-> "DB_ERROR"]

ResetAccountSync(a) ==
    /\ pc = "idle" /\ commands < MaxCommands /\ commands' = commands + 1
    /\ LET r == reset_account_sync(emails, projects, attachments, a)
       IN  /\ emails' = r.emails
           /\ projects' = r.projects
           /\ ret' = [op |-> "reset", ok |-> r.ok, code |-> r.code, arg |-> a, val |-> 0]
    /\ pc' = "Returned"
    /\ UNCHANGED <<server, max_sync_setting, attachments, locals, cret, ops, events,
                   faulted>>
    /\ UNCHANGED units

Next ==
    \/ \E a \in Accounts : \E u \in UIDs(a) : Deliver(a, u)
    \/ \E c \in CapValues : UpdateSyncSettings(c)
    \/ \E a \in Accounts : StartSync(a)
    \/ Connect
    \/ Authenticate
    \/ SelectFolder
    \/ RangeStep
    \/ FetchUids
    \/ PersistMessage
    \/ ClassifyMessage
    \/ SaveAttachments
    \/ Logout
    \/ Complete
    \/ Return
    \/ \E e \in emails : ClassifyCommand(e.id)
    \/ \E a \in Accounts \cup {UnknownAccount} : ResetAccountSync(a)

Spec == Init /\ [][Next]_vars

\* ------------------------------------------------- parse_email on its own

\* Raw messages with and without each of the Message-ID, References,
\* In-Reply-To and Subject headers.
RawInputs ==
    [message_id  : {None, Some("m1")},
     references  : {<<>>, <<"r1">>, <<"r1", "r2">>},
     in_reply_to : {None, Some("p1")},
     subject     : {None, Some(<<"a">>)},
     from        : {Some("ann")},
     date        : {Today},
     attachments : {0}]

ParserInit ==
    /\ InitSync
    /\ raw_data \in {Some(r) : r \in RawInputs}
    /\ parses = <<>>
    /\ InitNormalize /\ InitTimeline /\ InitConnect /\ InitClassify /\ InitEmit

\* parse_email(&raw_data) at the clock value now, then generate_thread_id on
\* the result (as save_email does).
ParseEmail(now) ==
    /\ raw_data # None /\ Len(parses) < MaxCalls
    /\ LET p == parse_email(Unwrap(raw_data), now)
       IN  parses' = Append(parses, [now |-> now, parsed |-> p,
                                     thread_id |-> generate_thread_id(p)])
    /\ UNCHANGED <<syncvars, raw_data, normalizevars, timelinevars, connectvars,
                   classifyvars, emitvars>>

ParserNext == \E now \in Times : ParseEmail(now)

ParserSpec == ParserInit /\ [][ParserNext]_vars

\* -------------------------------------------------- get_timeline on its own

\* Vec::sort_by(|a, b| b.date.cmp(&a.date)): a stable sort, newest first.
RECURSIVE InsertByDateDesc(_, _)
InsertByDateDesc(sorted, x) ==
    IF sorted = <<>> THEN <<x>>
    ELSE IF Head(sorted).date >= x.date
         THEN <<Head(sorted)>> \o InsertByDateDesc(Tail(sorted), x)
         ELSE <<x>> \o sorted

RECURSIVE SortFrom(_, _)
SortFrom(done, rest) ==
    IF rest = <<>> THEN done
    ELSE SortFrom(InsertByDateDesc(done, Head(rest)), Tail(rest))

sort_by_date_desc(seq) == SortFrom(<<>>, seq)

\* The rows of a table in the order of their row ids.
RECURSIVE RowsById(_)
RowsById(rows) ==
    IF rows = {} THEN <<>>
    ELSE LET r == CHOOSE x \in rows : \A y \in rows : x.id <= y.id
         IN  <<r>> \o RowsById(rows \ {r})

\* SELECT ... ORDER BY date DESC, rows of equal date in row-id order.
OrderByDateDesc(rows) == sort_by_date_desc(RowsById(rows))

\* A lookup that answers Ok also when the message has no attachment.
get_email_attachments_always_ok(A, id) ==
    Ok(RowsById({t \in A : t.email_id = id}))

\* get_email_attachments: the rows of the message, Err when there is none.
get_email_attachments(A, id) ==
    LET rows == RowsById({t \in A : t.email_id = id})
    IN  IF rows = <<>> THEN Err ELSE Ok(rows)

\* Result::ok
ResultOk(r) == IF r.ok THEN Some(r.val) ELSE None

MilestoneEvent(m) ==
    [kind |-> "Milestone", id |-> <<"m", m.id>>, date |-> m.date,
     children |-> <<>>, attachments |-> None]
EmailEvent(e, A) ==
    [kind |-> "Email", id |-> <<"e", e.id>>, date |-> e.date, children |-> <<>>,
     attachments |-> ResultOk(get_email_attachments(A, e.id))]

\* A thread dated by its oldest member.
ThreadEventOldest(es, tid, A) ==
    LET InThread(e) == e.thread_id = Some(tid)
        thread_emails == sort_by_date_desc(SelectSeq(es, InThread))
    IN  [kind |-> "Thread", id |-> tid,
         date |-> thread_emails[Len(thread_emails)].date,
         children |-> [i \in 1..Len(thread_emails) |-> EmailEvent(thread_emails[i], A)],
         attachments |-> None]

\* get_timeline, step 3: one entry of thread_map as a Thread event.
ThreadEvent(es, tid, A) ==
    LET InThread(e) == e.thread_id = Some(tid)
        thread_emails == sort_by_date_desc(SelectSeq(es, InThread))
    IN  [kind |-> "Thread", id |-> tid,
         date |-> thread_emails[1].date,
         children |-> [i \in 1..Len(thread_emails) |-> EmailEvent(thread_emails[i], A)],
         attachments |-> None]

\* The keys of thread_map.
ThreadIds(E, project_id) ==
    {Unwrap(e.thread_id) :
        e \in {r \in E : r.project_id = Some(project_id) /\ r.thread_id # None}}

\* The orders in which a HashMap may yield its keys.
IterationOrders(keys) ==
    {f \in [1..Cardinality(keys) -> keys] :
        \A i, j \in 1..Cardinality(keys) : f[i] = f[j] => i = j}

\* get_timeline(project_id), thread_map being iterated in the given order.
get_timeline(E, M, A, project_id, order) ==
    LET ms == OrderByDateDesc({m \in M : m.project_id = project_id})
        es == OrderByDateDesc({e \in E : e.project_id = Some(project_id)})
        Standalone(e) == e.thread_id = None
        alone == SelectSeq(es, Standalone)
        unsorted == [i \in 1..Len(ms) |-> MilestoneEvent(ms[i])]
                    \o [i \in 1..Len(order) |-> ThreadEvent(es, order[i], A)]
                    \o [i \in 1..Len(alone) |-> EmailEvent(alone[i], A)]
    IN  sort_by_date_desc(unsorted)

\* The stores get_timeline is called on: three messages, each unassigned,
\* in project 1 (standalone or in one of two threads) or in project 2, the
\* first with an attachment; a milestone of project 2 and at most one of
\* project 1; dates are days, written in one format.
Days == {1, 3, 5}
TimelineRow(id, place, day) ==
    [id |-> id, message_id |-> <<"t", id>>, account_id |-> 1,
     thread_id |-> place.thread_id, project_id |-> place.project_id,
     subject |-> Some(<<"a">>), sender |-> Some("ann"), date |-> day,
     raw_path |-> UidToString(id)]
Places ==
    {[project_id |-> None, thread_id |-> Some("t1")],
     [project_id |-> Some(1), thread_id |-> None],
     [project_id |-> Some(1), thread_id |-> Some("t1")],
     [project_id |-> Some(1), thread_id |-> Some("t2")],
     [project_id |-> Some(2), thread_id |-> Some("t1")]}
TimelineStores ==
    {{TimelineRow(i, place[i], day[i]) : i \in 1..3} :
        place \in [1..3 -> Places], day \in [1..3 -> Days]}
MilestoneRows ==
    {{[id |-> 2, project_id |-> 2, date |-> 3]} \cup ms :
        ms \in {{}} \cup {{[id |-> 1, project_id |-> 1, date |-> d]} : d \in Days}}

TimelineInit ==
    /\ mailbox = [a \in Accounts |-> IF a = 1 THEN {} ELSE {1}]
    /\ max_sync_setting = DefaultMaxSyncCount
    /\ emails \in TimelineStores
    /\ attachments = {AttachmentRow({}, 1, 1)}
    /\ projects =
          {[id |-> p, name |-> <<"a">>,
            email_count |-> Cardinality({e \in emails : e.project_id = Some(p)}),
            attachment_count |->
                Cardinality({t \in attachments : \E e \in emails :
                    e.project_id = Some(p) /\ t.email_id = e.id})]
           : p \in {1, 2}}
    /\ pc = "idle" /\ acct = 0 /\ total = 0 /\ last_uid = 0
    /\ max_sync_count = 0 /\ range = <<>> /\ uids = <<>> /\ current = 0
    /\ step = "none" /\ parsed = None /\ email_id = 0 /\ skipped = <<>>
    /\ cret = NoCret /\ ops = <<>> /\ events = <<>> /\ ret = NoRet
    /\ commands = 0 /\ faulted = FALSE
    /\ milestones \in MilestoneRows
    /\ timelines = <<>>
    /\ InitParser /\ InitNormalize /\ InitConnect /\ InitClassify /\ InitEmit

\* get_project_timeline(id) / ProjectRepository::get_timeline(project_id).
GetTimeline(project_id) ==
    /\ Len(timelines) < MaxCalls
    /\ \E order \in IterationOrders(ThreadIds(emails, project_id)) :
          timelines' = Append(timelines,
                              [project_id |-> project_id,
                               events |-> get_timeline(emails, milestones, attachments,
                                                       project_id, order)])
    /\ UNCHANGED <<syncvars, parservars, normalizevars, milestones, connectvars,
                   classifyvars, emitvars>>

TimelineNext == \E p \in projects : GetTimeline(p.id)

TimelineSpec == TimelineInit /\ [][TimelineNext]_vars

\* ---------------------------------------------- normalize_subject on its own

Repeat(c, n) == [i \in 1..n |-> c]

RECURSIVE Concat(_)
Concat(ss) == IF ss = <<>> THEN <<>> ELSE Head(ss) \o Concat(Tail(ss))

\* A listed prefix followed by a space, and two that the next text follows
\* directly.
PrefixTokens ==
    {Prefixes[i] \o <<" ">> : i \in 1..Len(Prefixes)}
    \cup {Prefixes[1], Prefixes[6]}

\* Up to n listed prefixes in a row.
PrefixRuns(n) ==
    UNION {[1..k -> PrefixTokens] : k \in 0..n}

\* What follows the prefixes: nothing, plain text, text in the other case,
\* a prefix that is not at the start, trailing white space, and texts of
\* 100, 101 and 103 bytes, one with a space and one with a three-byte
\* character across the 100th byte.
SubjectBodies ==
    { <<>>,
      <<"Q", "u", "a", "r", "t", "e", "r", "l", "y", " ",
        "R", "e", "p", "o", "r", "t">>,
      <<"r", "e", ":", " ", "a">>,
      <<"a", " ", "R", "e", ":">>,
      <<"a", " ", "\t">>,
      Repeat("x", MaxSubjectBytes),
      Repeat("x", MaxSubjectBytes - 1) \o <<" ", "y">>,
      Repeat("x", MaxSubjectBytes - 1) \o <<"U+56DE", "y">> }

SubjectInputs(n) ==
    {lead \o Concat(run) \o body :
        lead \in {<<>>, <<" ">>}, run \in PrefixRuns(n), body \in SubjectBodies}

NormalizeInit ==
    /\ InitSync
    /\ subject_arg \in {Some(s) : s \in SubjectInputs(MaxPrefixes)}
    /\ normalized = None
    /\ InitParser /\ InitTimeline /\ InitConnect /\ InitClassify /\ InitEmit

\* normalize_subject(&subject)
Normalize ==
    /\ subject_arg # None /\ normalized = None
    /\ normalized' = Some(normalize_subject(Unwrap(subject_arg)))
    /\ UNCHANGED <<syncvars, parservars, subject_arg, timelinevars, connectvars,
                   classifyvars, emitvars>>

NormalizeNext == Normalize

NormalizeSpec == NormalizeInit /\ [][NormalizeNext]_vars

\* ------------------------------------------- ImapConnection::connect on its own

\* format!("user={}\x01auth=Bearer {}\x01\x01", username, access_token);
\* "^A" stands for the character \x01.
XOAuth2AuthString(username, access_token) ==
    <<"user=", username, "^A", "auth=Bearer ", access_token, "^A", "^A">>

\* An authenticator that answers every challenge with the credential string.
process_resending(self, challenge) ==
    [self     |-> [self EXCEPT !.first_call = FALSE],
     response |-> self.auth_string]

\* XOAuth2Authenticator::process(&mut self, _challenge): the answer and the
\* authenticator after the call.
process(self, challenge) ==
    IF self.first_call
    THEN [self     |-> [self EXCEPT !.first_call = FALSE],
          response |-> self.auth_string]
    ELSE [self |-> self, response |-> <<>>]

\* AuthMethod
AuthMethods ==
    {[kind |-> "Password", username |-> "ann", secret |-> "pw"]}
    \cup {[kind |-> "OAuth", username |-> u, secret |-> t] :
             u \in {"ann", "bob"}, t \in {"", "tok"}}

\* The challenges a server may send during the SASL exchange.
Challenges == {<<>>, <<"eyJzdGF0dXMiOiI0MDAifQ==">>}

ConnectInit ==
    /\ InitSync
    /\ auth \in {Some(a) : a \in AuthMethods}
    /\ conn_pc = "tcp" /\ conn_steps = <<>> /\ conn_result = None
    /\ auth_string = None /\ first_call = TRUE /\ responses = <<>>
    /\ InitParser /\ InitNormalize /\ InitTimeline /\ InitClassify /\ InitEmit

ConnectFrame ==
    UNCHANGED <<syncvars, parservars, normalizevars, timelinevars, auth,
                classifyvars, emitvars>>
AuthenticatorFrame == UNCHANGED <<auth_string, first_call, responses>>

\* The step ended with outcome and connect goes on with next.
StepDone(name, outcome, next) ==
    /\ conn_steps' = Append(conn_steps, [step |-> name, outcome |-> outcome])
    /\ conn_pc' = next
    /\ conn_result' = None

\* The step ended with outcome and connect returns Err(AppError::err).
StepFails(name, outcome, err) ==
    /\ conn_steps' = Append(conn_steps, [step |-> name, outcome |-> outcome])
    /\ conn_pc' = "returned"
    /\ conn_result' = Some([ok |-> FALSE, err |-> err])

\* TcpStream::connect(&addr)
TcpConnect(outcome) ==
    /\ conn_pc = "tcp"
    /\ IF outcome = "ok" THEN StepDone("tcp", outcome, "tls")
                         ELSE StepFails("tcp", outcome, "Network")
    /\ AuthenticatorFrame /\ ConnectFrame

\* TlsConnector::new and tls.connect
TlsConnect(outcome) ==
    /\ conn_pc = "tls"
    /\ IF outcome = "ok" THEN StepDone("tls", outcome, "greeting")
                         ELSE StepFails("tls", outcome, "Network")
    /\ AuthenticatorFrame /\ ConnectFrame

\* timeout(5 s, client.read_response()): every outcome is only logged.
ReadGreeting(outcome) ==
    /\ conn_pc = "greeting"
    /\ StepDone("greeting", outcome, "auth")
    /\ AuthenticatorFrame /\ ConnectFrame

\* AuthMethod::Password: client.login
Login(outcome) ==
    /\ conn_pc = "auth" /\ Unwrap(auth).kind = "Password"
    /\ IF outcome = "ok" THEN StepDone("login", outcome, "capabilities")
                         ELSE StepFails("login", outcome, "Auth")
    /\ AuthenticatorFrame /\ ConnectFrame

\* AuthMethod::OAuth: XOAuth2Authenticator::new, client.authenticate begins
NewAuthenticator ==
    /\ conn_pc = "auth" /\ Unwrap(auth).kind = "OAuth"
    /\ auth_string' =
          Some(XOAuth2AuthString(Unwrap(auth).username, Unwrap(auth).secret))
    /\ first_call' = TRUE
    /\ conn_pc' = "sasl"
    /\ UNCHANGED <<conn_steps, conn_result, responses>>
    /\ ConnectFrame

\* client.authenticate: the server sends a challenge, process answers it.
Process(challenge) ==
    /\ conn_pc = "sasl" /\ Len(responses) < MaxChallenges
    /\ LET r == process([auth_string |-> Unwrap(auth_string),
                         first_call |-> first_call], challenge)
       IN  /\ first_call' = r.self.first_call
           /\ auth_string' = Some(r.self.auth_string)
           /\ responses' = Append(responses, [challenge |-> challenge,
                                              response |-> r.response])
    /\ UNCHANGED <<conn_pc, conn_steps, conn_result>>
    /\ ConnectFrame

\* timeout(15 s, client.authenticate("XOAUTH2", authenticator)) ends: the
\* server accepts (only after it was sent something), refuses, or the 15 s
\* ran out.
AuthenticateEnds(outcome) ==
    /\ conn_pc = "sasl"
    /\ outcome = "ok" => responses # <<>>
    /\ CASE outcome = "ok"      -> StepDone("authenticate", outcome, "capabilities")
         [] outcome = "timeout" -> StepFails("authenticate", outcome, "Network")
         [] OTHER               -> StepFails("authenticate", outcome, "Auth")
    /\ AuthenticatorFrame /\ ConnectFrame

\* timeout(5 s, session.capabilities()): every outcome is only logged, and
\* connect returns Ok(Self { session }).
Capabilities(outcome) ==
    /\ conn_pc = "capabilities"
    /\ conn_steps' = Append(conn_steps, [step |-> "capabilities", outcome |-> outcome])
    /\ conn_pc' = "returned"
    /\ conn_result' = Some([ok |-> TRUE, err |-> "none"])
    /\ AuthenticatorFrame /\ ConnectFrame

ConnectNext ==
    \/ \E o \in {"ok", "error"} : TcpConnect(o)
    \/ \E o \in {"ok", "error"} : TlsConnect(o)
    \/ \E o \in {"ok", "none", "error", "timeout"} : ReadGreeting(o)
    \/ \E o \in {"ok", "error"} : Login(o)
    \/ NewAuthenticator
    \/ \E c \in Challenges : Process(c)
    \/ \E o \in {"ok", "error", "timeout"} : AuthenticateEnds(o)
    \/ \E o \in {"ok", "error", "timeout"} : Capabilities(o)

ConnectSpec == ConnectInit /\ [][ConnectNext]_vars

\* ------------------------------------- classify_email calls running at once

\* sync_email_account is an async command and every statement of the
\* classifier goes to the pool on its own (no transaction, no lock), so the
\* statements of classify_email calls made by runs that are in progress at
\* the same time interleave. Each statement is atomic.

\* The calls in progress: call c classifies the message of row id c.
Callers == {1, 2, 3}

\* assign_email_to_project, with the recount ahead of the UPDATE of emails.
AssignStepsRecountFirst == <<"update_project_stats", "assign_email_to_project">>

\* assign_email_to_project: its two statements, in order.
AssignSteps == <<"assign_email_to_project", "update_project_stats">>

\* What follows statement s of assign_email_to_project.
AfterAssignStep(s) == IF AssignSteps[1] = s THEN AssignSteps[2] ELSE "done"

\* classify_email, steps 4 and 5: where a call goes when no project was found
\* by thread.
AfterThread(email) ==
    IF email.subject # None THEN "find_project_by_subject"
    ELSE "create_project_for_email"

\* classify_email, step 3: where a call goes with the row it read.
AfterInfo(email) ==
    IF email.thread_id # None THEN "find_project_by_thread" ELSE AfterThread(email)

\* A row of emails the calls work on: saved by a sync run, recent.
ClassifyRow(id, a, thread_id, subj, project_id) ==
    [id |-> id, message_id |-> <<"c", id>>, account_id |-> a,
     thread_id |-> Some(thread_id), project_id |-> project_id,
     subject |-> Some(subj), sender |-> Some("ann"), date |-> Today - 1,
     raw_path |-> UidToString(id)]

\* The stores the calls start on: messages 1 and 2, saved by the runs of
\* accounts 1 and 2 and not yet classified, and message 3, not yet classified
\* or in project 1; each in one of two threads with one of two subjects.
ClassifyStores ==
    LET Keys == {"t1", "t2"}
        Subjects == {<<"a", "b">>, <<"c", "d">>}
    IN  {{ClassifyRow(1, 1, k[1], s[1], None), ClassifyRow(2, 2, k[2], s[2], None),
          ClassifyRow(3, 1, k[3], s[3], p)} :
            k \in [1..3 -> Keys], s \in [1..3 -> Subjects], p \in {None, Some(1)}}

ClassifyInit ==
    /\ mailbox = [a \in Accounts |-> IF a = 1 THEN {} ELSE {1}]
    /\ max_sync_setting = DefaultMaxSyncCount
    /\ emails \in ClassifyStores
    /\ attachments = {}
    /\ projects =
          IF \E e \in emails : e.project_id = Some(1)
          THEN {[id |-> 1, name |-> <<"a">>, email_count |-> 1, attachment_count |-> 0]}
          ELSE {}
    /\ pc = "idle" /\ acct = 0 /\ total = 0 /\ last_uid = 0
    /\ max_sync_count = 0 /\ range = <<>> /\ uids = <<>> /\ current = 0
    /\ step = "none" /\ parsed = None /\ email_id = 0 /\ skipped = <<>>
    /\ cret = NoCret /\ ops = <<>> /\ events = <<>> /\ ret = NoRet
    /\ commands = 0 /\ faulted = FALSE
    /\ calls = [c \in Callers |->
                   [pc |-> "get_email_info", email_id |-> c, email |-> None,
                    project_id |-> 0, wrote |-> None, ret |-> None]]
    /\ InitParser /\ InitNormalize /\ InitTimeline /\ InitConnect /\ InitEmit

ClassifyFrame ==
    UNCHANGED <<mailbox, max_sync_setting, attachments, pc, acct, total, last_uid,
                max_sync_count, range, uids, current, step, parsed, email_id,
                skipped, cret, ops, events, ret, commands,
                parservars, normalizevars, timelinevars, connectvars, emitvars>>

\* Call c moves on to statement s, or returns Ok(project_id) when s is "done".
CallGoes(c, s, project_id) ==
    calls' = [calls EXCEPT ![c].pc = s, ![c].project_id = project_id,
                           ![c].ret = IF s = "done" THEN Some(Ok(project_id)) ELSE None]

\* classify_email, steps 1 and 2: get_email_info, and the early return for
\* an email that has a project.
GetEmailInfo(c) ==
    /\ calls[c].pc = "get_email_info"
    /\ LET rows == {e \in emails : e.id = calls[c].email_id}
       IN  IF rows = {}
           THEN calls' = [calls EXCEPT ![c].pc = "done", ![c].ret = Some(Err)]
           ELSE LET email == CHOOSE e \in rows : TRUE
                IN  IF email.project_id # None
                    THEN CallGoes(c, "done", Unwrap(email.project_id))
                    ELSE calls' = [calls EXCEPT ![c].email = Some(email),
                                                ![c].pc = AfterInfo(email)]
    /\ UNCHANGED <<emails, projects, faulted>>
    /\ ClassifyFrame

\* classify_email, step 3: find_project_by_thread.
FindProjectByThread(c) ==
    /\ calls[c].pc = "find_project_by_thread"
    /\ LET email == Unwrap(calls[c].email)
           found == find_project_by_thread(emails, Unwrap(email.thread_id))
       IN  IF found # {}
           THEN \E q \in found : CallGoes(c, AssignSteps[1], q)
           ELSE CallGoes(c, AfterThread(email), 0)
    /\ UNCHANGED <<emails, projects, faulted>>
    /\ ClassifyFrame

\* classify_email, step 4: find_project_by_subject.
FindProjectBySubject(c) ==
    /\ calls[c].pc = "find_project_by_subject"
    /\ LET email == Unwrap(calls[c].email)
           found == find_project_by_subject(emails,
                                            normalize_subject(Unwrap(email.subject)))
       IN  IF found # {}
           THEN \E q \in found : CallGoes(c, AssignSteps[1], q)
           ELSE CallGoes(c, "create_project_for_email", 0)
    /\ UNCHANGED <<emails, projects, faulted>>
    /\ ClassifyFrame

\* classify_email, step 5: create_project_for_email.
CreateProjectForEmail(c) ==
    /\ calls[c].pc = "create_project_for_email"
    /\ LET p == create_project_for_email(projects, Unwrap(calls[c].email))
       IN  /\ projects' = projects \cup {p}
           /\ CallGoes(c, AssignSteps[1], p.id)
    /\ UNCHANGED <<emails, faulted>>
    /\ ClassifyFrame

\* assign_email_to_project: UPDATE emails SET project_id = ? WHERE id = ?.
UpdateEmails(c) ==
    /\ calls[c].pc = "assign_email_to_project"
    /\ emails' = {IF e.id = calls[c].email_id
                  THEN [e EXCEPT !.project_id = Some(calls[c].project_id)]
                  ELSE e : e \in emails}
    /\ CallGoes(c, AfterAssignStep("assign_email_to_project"), calls[c].project_id)
    /\ UNCHANGED <<projects, faulted>>
    /\ ClassifyFrame

\* assign_email_to_project: update_project_stats, one UPDATE statement. The
\* call keeps the email_count its statement stored.
UpdateProjectStats(c) ==
    /\ calls[c].pc = "update_project_stats"
    /\ LET s == AfterAssignStep("update_project_stats")
           P == update_project_stats(emails, projects, attachments, calls[c].project_id)
       IN  /\ projects' = P
           /\ calls' = [calls EXCEPT
                 ![c].pc = s,
                 ![c].wrote = Some((CHOOSE p \in P : p.id = calls[c].project_id).email_count),
                 ![c].ret = IF s = "done" THEN Some(Ok(calls[c].project_id)) ELSE None]
    /\ UNCHANGED <<emails, faulted>>
    /\ ClassifyFrame

\* The statement call c is at fails (the ? of classify_email and of
\* assign_email_to_project): the call returns the error.
StatementFails(c) ==
    /\ calls[c].pc # "done"
    /\ Fault
    /\ calls' = [calls EXCEPT ![c].pc = "done", ![c].ret = Some(Err)]
    /\ UNCHANGED <<emails, projects>>
    /\ ClassifyFrame

ClassifyNext ==
    \E c \in Callers :
        \/ GetEmailInfo(c)
        \/ FindProjectByThread(c)
        \/ FindProjectBySubject(c)
        \/ CreateProjectForEmail(c)
        \/ UpdateEmails(c)
        \/ UpdateProjectStats(c)
        \/ StatementFails(c)

ClassifySpec == ClassifyInit /\ [][ClassifyNext]_vars

\* ------------------------------------------- a sync run and its observer

\* A run's emit_progress calls are the entries of events; here each call is
\* followed to the observer before the run goes on.

\* An emission whose failure is returned to the run, which gives up.
EmitProgressOrAbort ==
    /\ Len(delivered) < Len(events)
    /\ \E sent \in BOOLEAN :
          /\ delivered' = Append(delivered,
                                 [event |-> events[Len(delivered) + 1],
                                  received |-> emitter # None /\ sent])
          /\ IF emitter # None /\ ~sent
             THEN /\ pc' = "Failed"
                  /\ ret' = [op |-> "sync", ok |-> FALSE, code |-> "Generic",
                             arg |-> acct, val |-> 0]
             ELSE UNCHANGED <<pc, ret>>
    /\ UNCHANGED <<server, max_sync_setting, store, locals, cret, ops, events,
                   commands, faulted>>
    /\ UNCHANGED <<parservars, normalizevars, timelinevars, connectvars,
                   classifyvars, emitter>>

\* EventEmitter::emit_sync_progress: app_handle.emit("sync-progress", ..)
\* sends or fails; a failure is logged and dropped. The value is whether the
\* observer received the event.
emit_sync_progress(sent) == sent

\* EmailSyncer::emit_progress: nothing without an emitter.
emit_progress(em, sent) == IF em # None THEN emit_sync_progress(sent) ELSE FALSE

\* Every emit_progress call of the run so far has been carried out.
Emitted == Len(delivered) = Len(events)

\* EmailSyncer::new (no emitter) or with_event_emitter.
EmitInit ==
    /\ InitSync
    /\ InitParser /\ InitNormalize /\ InitTimeline /\ InitConnect /\ InitClassify
    /\ emitter \in {None, Some("app_handle")}
    /\ delivered = <<>>

\* The emit_progress call the run is at: the event is offered to the
\* observer, and the call returns nothing.
EmitProgress ==
    /\ Len(delivered) < Len(events)
    /\ \E sent \in BOOLEAN :
          delivered' = Append(delivered,
                              [event |-> events[Len(delivered) + 1],
                               received |-> emit_progress(emitter, sent)])
    /\ UNCHANGED <<syncvars, parservars, normalizevars, timelinevars, connectvars,
                   classifyvars, emitter>>

\* One sync_account run, each step after the emissions before it.
EmitNext ==
    \/ \E a \in Accounts : \E u \in UIDs(a) : Deliver(a, u)
    \/ \E a \in Accounts : StartSync(a)
    \/ Emitted /\ Connect
    \/ Emitted /\ Authenticate
    \/ Emitted /\ SelectFolder
    \/ Emitted /\ RangeStep
    \/ Emitted /\ FetchUids
    \/ Emitted /\ PersistMessage
    \/ Emitted /\ ClassifyMessage
    \/ Emitted /\ SaveAttachments
    \/ Emitted /\ Logout
    \/ Emitted /\ Complete
    \/ EmitProgress

EmitSpec == EmitInit /\ [][EmitNext]_vars

\* -------------------------------------------------------------- properties

IsBodyFetch(o) == o.op = "uid_fetch_body"
\* The UIDs whose bodies the run has fetched, in the order of the fetches.
FetchedUids(q) ==
    LET b == SelectSeq(q, IsBodyFetch) IN [i \in 1..Len(b) |-> b[i].uid]
OpNames(q) == [i \in 1..Len(q) |-> q[i].op]
Elems(q) == {q[i] : i \in 1..Len(q)}
\* The states of a run in which its range and cursor are known.
Ranged == pc \in {"RangeComputed", "Fetching", "LoggedOut", "Completed"}
\* The states of a run in which its UID list is known.
Listed == pc \in {"Fetching", "LoggedOut", "Completed"}
\* A step that is one call of classify_email.
ClassifyCall ==
    \/ pc = "idle" /\ pc' = "Returned" /\ ret'.op = "classify"
    \/ pc = "Fetching" /\ step = "classify" /\ step' = "attach"
\* Projects held by stored messages other than e that share e's thread key.
ThreadProjects(e) ==
    {Unwrap(o.project_id) :
        o \in {r \in emails : /\ r.id # e.id
                              /\ e.thread_id # None /\ r.thread_id = e.thread_id
                              /\ r.project_id # None}}
\* str holds sub as a substring.
Contains(str, sub) ==
    \E i \in 0..(Len(str) - Len(sub)) : SubSeq(str, i + 1, i + Len(sub)) = sub

\* C1: a failure of a message's pipeline (fetch, parse, persist, attachments)
\* is confined to that message: the run stays in its loop over the same UID
\* list, the loop is left only when every UID of the list has been fetched, in
\* order, and a successful logout is followed by Completed.
C1_FaultIsolation ==
    [][ /\ (Len(skipped') > Len(skipped)) =>
              /\ pc' = "Fetching" /\ step' = "next"
              /\ uids' = uids /\ current' <= Len(uids)
        /\ (pc = "Fetching" /\ pc' # "Fetching") =>
              /\ current = Len(uids)
              /\ FetchedUids(ops) = uids
        /\ (pc = "LoggedOut" /\ pc' # pc) =>
              /\ pc' = "Completed"
              /\ events'[Len(events')].status = "Completed"
              /\ ret'.ok
      ]_vars

\* C1 happens: a run completed in which a UID was skipped and a later UID of
\* the list was persisted.
C1_Witness ==
    /\ pc = "Completed"
    /\ \E i \in 1..Len(uids) : \E j \in (i + 1)..Len(uids) :
          /\ uids[i] \in Elems(skipped)
          /\ uids[j] \notin Elems(skipped)
          /\ \E e \in emails : e.account_id = acct /\ e.raw_path = UidToString(uids[j])

\* C2: whenever no operation is running, and none has met a failure, every
\* project's stored email_count is the number of stored messages assigned to
\* the project.
C2_CounterInvariant ==
    (pc = "idle" /\ ~faulted) =>
        \A p \in projects :
            p.email_count = Cardinality({e \in emails : e.project_id = Some(p.id)})

\* C3: a run with cursor c > 0 asks for "<c+1>:*" and fetches the body of no
\* UID at or below c.
C3_NoRefetch ==
    (Ranged /\ last_uid > 0) =>
        /\ range = <<UidToString(last_uid + 1), ":", "*">>
        /\ \A u \in Elems(FetchedUids(ops)) : u > last_uid

\* C4: on a first sync (cursor 0) the range is "1:*" under the sync-all
\* sentinel, "<size - cap + 1>:*" when the mailbox is larger than the cap,
\* and "1:*" otherwise; size 10000 with cap 100 gives "9901:*".
C4_FirstSyncRange ==
    /\ (Ranged /\ last_uid = 0) =>
          /\ Len(range) = 3 /\ range[2] = ":" /\ range[3] = "*"
          /\ range[1] # <<>> /\ Head(range[1]) # "0"
          /\ CastInteger(range[1], 0) =
                IF max_sync_count >= SyncAllSentinel THEN 1
                ELSE IF total > max_sync_count THEN total - max_sync_count + 1
                ELSE 1
    /\ ComputeRange(0, 10000, DefaultMaxSyncCount) = <<<<"9", "9", "0", "1">>, ":", "*">>

\* C4 happens: a first sync of a mailbox larger than the cap.
C4_Witness ==
    /\ pc = "RangeComputed" /\ last_uid = 0
    /\ max_sync_count = 1 /\ total = 3
    /\ range = <<<<"3">>, ":", "*">>

\* C5: a first sync under a cap smaller than the mailbox processes at most
\* cap messages, those of the highest UIDs of the mailbox.
C5_FirstSyncNewest ==
    (Listed /\ last_uid = 0 /\ max_sync_count < SyncAllSentinel
        /\ total > max_sync_count) =>
        /\ Len(uids) <= max_sync_count
        /\ Elems(uids) \subseteq mailbox[acct]
        /\ \A u \in mailbox[acct] \ Elems(uids) : \A v \in Elems(uids) : u < v

C7_ClassifyIdempotent ==
    [][ \A e \in emails :
          (ClassifyCall /\ cret'.id = e.id /\ e.project_id # None) =>
              /\ emails' = emails /\ projects' = projects
              /\ attachments' = attachments
              /\ (faulted' = faulted) =>
                    (cret'.ok /\ cret'.val = Unwrap(e.project_id))
      ]_vars

\* C7 happens: classify was called for a message assigned by an earlier sync
\* run and returned the message's project.
C7_Witness ==
    /\ pc = "Returned" /\ ret.op = "classify" /\ ret.ok /\ ~faulted
    /\ \E e \in emails : e.id = ret.arg /\ e.project_id = Some(ret.val)
    /\ \E p \in projects : p.id = ret.val /\ p.email_count = 1

\* C8: a successful classify call on an unassigned message, when another
\* stored message of its thread has a project, assigns one of the projects of
\* its thread and creates no project, whatever the subjects match.
C8_ThreadBeforeSubject ==
    [][ \A e \in emails :
          (ClassifyCall /\ cret'.id = e.id /\ cret'.ok
              /\ e.project_id = None /\ ThreadProjects(e) # {}) =>
              /\ cret'.val \in ThreadProjects(e)
              /\ \E n \in emails' : n.id = e.id /\ n.project_id = Some(cret'.val)
              /\ {p.id : p \in projects'} = {p.id : p \in projects}
      ]_vars

\* C8 happens: the reply was assigned the project of the first message of its
\* thread while a message of another project matches its subject.
C8_Witness ==
    \E e \in emails : \E t \in emails : \E o \in emails :
        /\ e.message_id = "m3" /\ cret.id = e.id /\ cret.ok
        /\ t.message_id = "m1" /\ t.thread_id = e.thread_id
        /\ e.project_id = t.project_id /\ e.project_id = Some(cret.val)
        /\ o \in SubjectMatches(emails, normalize_subject(Unwrap(e.subject)))
        /\ o.id # e.id /\ o.project_id # e.project_id

\* C9: in a behaviour without failures, a classify call creates a project
\* exactly when the message is unassigned,
\* no other message of its thread has a project, and no
\* assigned message of the last 30 days has a subject containing the
\* normalized subject; it creates at most one, named by the normalized
\* subject (by the sender when there is no subject).
C9_CreatesIffNoMatch ==
    [][ \A e \in emails :
          (ClassifyCall /\ cret'.id = e.id /\ cret'.ok /\ ~faulted') =>
              LET created == {p \in projects' : p.id \notin {q.id : q \in projects}}
                  bySubject ==
                      /\ e.subject # None
                      /\ \E o \in emails :
                            /\ o.project_id # None /\ o.subject # None
                            /\ o.date > Today - RecentDays
                            /\ Contains(Unwrap(o.subject),
                                        normalize_subject(Unwrap(e.subject)))
              IN  /\ (created # {}) <=>
                        (e.project_id = None /\ ThreadProjects(e) = {} /\ ~bySubject)
                  /\ Cardinality(created) <= 1
                  /\ \A p \in created :
                        p.name = IF e.subject # None
                                 THEN normalize_subject(Unwrap(e.subject))
                                 ELSE <<"Project from ", Unwrap(e.sender)>>
      ]_vars

RunPhases ==
    <<"Connecting", "Authenticating", "Authenticated", "FolderSelected",
      "RangeComputed", "Fetching", "LoggedOut", "Completed">>
InRun(p) == \E i \in 1..Len(RunPhases) : RunPhases[i] = p
PhaseIndex(p) == CHOOSE i \in 1..Len(RunPhases) : RunPhases[i] = p

\* C10: a run moves through connect, authenticate, folder selection, range
\* computation, fetching, logout and completion one phase at a time (or to
\* Failed); a body is fetched only while fetching, from a computed range;
\* logout is issued only when every UID of the list has been handled; nothing
\* is issued on the session after logout; Completed follows a logout only.
C10_PhaseOrder ==
    [][ /\ (InRun(pc') /\ pc' # pc) =>
              IF pc' = "Connecting" THEN pc = "idle"
              ELSE InRun(pc) /\ PhaseIndex(pc') = PhaseIndex(pc) + 1
        /\ (InRun(pc) /\ pc' # pc /\ ~InRun(pc')) =>
              (pc' = "Failed" \/ (pc = "Completed" /\ pc' = "idle"))
        /\ (Len(FetchedUids(ops')) > Len(FetchedUids(ops))) =>
              /\ pc = "Fetching" /\ range # <<>>
              /\ OpNames(SubSeq(ops, 1, 4)) =
                    <<"connect", "authenticate", "select", "uid_fetch_uids">>
        /\ (ops' # ops /\ ops' # <<>> /\ ops'[Len(ops')].op = "logout") =>
              /\ pc = "Fetching" /\ step = "next" /\ current = Len(uids)
              /\ FetchedUids(ops) = uids
        /\ ("logout" \in Elems(OpNames(ops))) => (ops' = ops \/ ops' = <<>>)
        /\ (pc' = "Completed" /\ pc # pc') =>
              /\ pc = "LoggedOut"
              /\ ops # <<>> /\ ops[Len(ops)].op = "logout"
      ]_vars

\* C10 happens: a run over two UIDs completed, its session operations in
\* the order of the phases.
C10_Witness ==
    /\ pc = "Completed" /\ Len(uids) = 2
    /\ OpNames(ops) = <<"connect", "authenticate", "select", "uid_fetch_uids",
                        "uid_fetch_body", "uid_fetch_body", "logout">>

\* The run's last request on the session was the logout and it failed.
LogoutFailed == pc = "Failed" /\ ops # <<>> /\ ops[Len(ops)].op = "logout"
\* The stored rows of the running account whose UID is u.
RowsOf(u) == {e \in emails : e.account_id = acct /\ e.raw_path = UidToString(u)}

\* C11: when the logout fails after the loop, sync_account returns an error
\* (AppError::Generic), no Completed event has been emitted, every Syncing
\* event of the loop has been, and every message the run persisted is still
\* stored, with the project the run assigned to it.
C11_LogoutFailureFailsRun ==
    LogoutFailed =>
        /\ ret.op = "sync" /\ ~ret.ok /\ ret.code = "Generic" /\ ret.arg = acct
        /\ \A i \in 1..Len(events) : events[i].status # "Completed"
        /\ Len(events) = Len(uids) /\ current = Len(uids)
        /\ \A i \in 1..Len(uids) :
              uids[i] \notin Elems(skipped) =>
                  \E e \in RowsOf(uids[i]) :
                      /\ e.project_id # None
                      /\ \E p \in projects : e.project_id = Some(p.id)

\* C11 happens: the logout failed after a run persisted two messages, which
\* are stored and assigned.
C11_Witness ==
    /\ LogoutFailed /\ Len(uids) >= 2 /\ skipped = <<>>
    /\ \A i \in 1..Len(uids) : \E e \in RowsOf(uids[i]) : e.project_id # None

\* The run failed before its loop: on connect, authentication, folder
\* selection, the cursor lookup or the UID enumeration.
RunAborted == pc = "Failed" /\ ~LogoutFailed
\* The error variants the step after the session's last request can return.
CauseAfter(last) ==
    CASE last = "connect"        -> {"Network"}
      [] last = "authenticate"   -> {"Auth"}
      [] last = "select"         -> {"Generic", "Database"}
      [] last = "uid_fetch_uids" -> {"Generic"}
      [] OTHER                   -> {}

ClassifyFailedInRun == Listed /\ cret.id # 0 /\ ~cret.ok

\* C13: when classify_email fails for a message of a run, the message stays
\* stored and has no project, its attachments are all stored once the message
\* is done, the loop goes on to the later UIDs, and the run completes with the
\* usual result.
C13_ClassifyFailureLocal ==
    ClassifyFailedInRun =>
        /\ \E e \in emails : e.id = cret.id /\ e.project_id = None
        /\ uids[current] \notin Elems(skipped)
        /\ (step = "next") =>
              Cardinality({t \in attachments : t.email_id = cret.id}) =
                  Raw(acct, uids[current]).attachments
        /\ (pc = "Completed") => (ret.ok /\ ret.val = Len(uids))

\* C14: on a run that completes, the last event is Completed with
\* current = total = N and the returned SyncProgress has status completed and
\* current = total = N, N being the length of the run's UID list, however
\* many of its UIDs were skipped.
C14_FinalReportCountsAll ==
    (pc = "Completed") =>
        /\ events # <<>>
        /\ events[Len(events)] = Progress(acct, Len(uids), Len(uids), "Completed")
        /\ ret.op = "sync" /\ ret.ok /\ ret.code = "completed"
        /\ ret.arg = acct /\ ret.val = Len(uids)

\* C14 happens: a run over two or more UIDs completed after skipping one, and
\* reported them all.
C14_Witness ==
    /\ pc = "Completed" /\ Len(uids) >= 2 /\ Len(skipped) = 1
    /\ ret.val = Len(uids)
    /\ events[Len(events)].current = Len(uids)

\* C15: the count of the final Completed event is the number of UIDs of the
\* run whose whole pipeline succeeded, the skipped ones left out.
C15_FinalCountOnlySuccesses ==
    (pc = "Completed") =>
        /\ events[Len(events)].status = "Completed"
        /\ events[Len(events)].current = Len(uids) - Len(skipped)

\* The messages of the run whose handling has ended (done or skipped).
Handled == IF step = "next" THEN current ELSE current - 1
IsSyncing(ev) == ev.status = "Syncing"

\* C16 as stated: the events of a run are the Syncing events 1..k with total
\* N, in order, k being the number of messages handled so far, followed at
\* completion by one Completed event; the i-th Syncing event is not emitted
\* before the i-th message has been handled.
C16_EventAfterMessage ==
    Listed =>
        LET k == Len(SelectSeq(events, IsSyncing))
        IN  /\ k = Handled
            /\ \A i \in 1..k :
                  /\ events[i].status = "Syncing" /\ events[i].account_id = acct
                  /\ events[i].current = i /\ events[i].total = Len(uids)
            /\ Len(events) = IF pc = "Completed" THEN k + 1 ELSE k

\* C16, amended: the events of a run are the Syncing events 1..k with total
\* N, in order, k being the number of messages whose handling has started
\* (the i-th event is emitted with the fetch of the i-th UID, before that
\* message is persisted, classified or its attachments saved); a run that
\* completes emits N of them followed by exactly one Completed event, the
\* last event of the run, and no Completed event is emitted before.
C16_ProgressSequence ==
    Listed =>
        LET k == Len(SelectSeq(events, IsSyncing))
        IN  /\ k = current /\ k = Len(FetchedUids(ops))
            /\ \A i \in 1..k :
                  /\ events[i].status = "Syncing" /\ events[i].account_id = acct
                  /\ events[i].current = i /\ events[i].total = Len(uids)
            /\ Len(events) = IF pc = "Completed" THEN k + 1 ELSE k
            /\ (pc = "Completed") =>
                  /\ k = Len(uids)
                  /\ events[k + 1].status = "Completed"
            /\ (pc = "LoggedOut") => k = Len(uids)

\* C16 happens: the second Syncing event of a run over three UIDs is out
\* while the second message is stored and not yet classified.
C16_Witness ==
    /\ pc = "Fetching" /\ step = "classify" /\ current = 2 /\ Len(uids) = 3
    /\ Len(events) = 2
    /\ events[2].status = "Syncing" /\ events[2].current = 2 /\ events[2].total = 3
    /\ Handled = 1

\* C17: once the classification call for a message of the run has been made,
\* the message is stored and every attachment of the message is stored.
C17_ClassifyAfterAttachments ==
    (pc = "Fetching" /\ cret.id # 0 /\ cret.id = email_id) =>
        /\ \E e \in emails : e.id = email_id
        /\ Cardinality({t \in attachments : t.email_id = email_id}) =
              Unwrap(parsed).attachments

\* C18: whenever no operation is running, and none has met a failure, every
\* project's stored attachment_count is the number of stored attachments of
\* the messages assigned to the project.
C18_AttachmentCounter ==
    (pc = "idle" /\ ~faulted) =>
        \A p \in projects :
            p.attachment_count =
                Cardinality({t \in attachments :
                                \E e \in emails : /\ e.id = t.email_id
                                                  /\ e.project_id = Some(p.id)})

\* A step of account a's sync that persists a message, or a's reset.
OwnCursorStep(a) ==
    \/ pc = "Fetching" /\ step = "next" /\ acct = a /\ current' = current + 1
    \/ pc = "idle" /\ pc' = "Returned" /\ ret'.op = "reset" /\ ret'.arg = a

\* C19: the cursor a run computes its range from is the highest UID of the
\* account's stored messages (0 if none), and, in a behaviour without
\* failures, the cursor of an account changes only in a step of that
\* account's own sync that persists a message, or in that account's reset.
C19_CursorDefinition ==
    [][ /\ (pc = "FolderSelected" /\ pc' = "RangeComputed") =>
              last_uid' = get_last_synced_uid(emails, acct)
        /\ \A a \in Accounts :
              (/\ ~faulted'
               /\ get_last_synced_uid(emails', a) # get_last_synced_uid(emails, a)) =>
                  OwnCursorStep(a)
      ]_vars

\* C20: in a behaviour without failures, a step of a run that persists a
\* message whose identifier is already stored leaves exactly one row with the
\* identifier, with the row identity and the project it had, and leaves the
\* attachments as they are.
C20_PersistIdempotent ==
    [][ (pc = "Fetching" /\ step = "next" /\ step' = "classify" /\ ~faulted') =>
            LET mid == Unwrap(parsed').message_id
                old == {e \in emails : e.message_id = mid}
                new == {e \in emails' : e.message_id = mid}
            IN  (old # {}) =>
                    /\ Cardinality(new) = 1
                    /\ \A o \in old : \A n \in new :
                          /\ n.id = o.id
                          /\ n.project_id = o.project_id
                    /\ attachments' = attachments
      ]_vars

\* A step that is one call of reset_account_sync.
ResetCall == pc = "idle" /\ pc' = "Returned" /\ ret'.op = "reset"

C22_ResetDeletesProjects ==
    [][ (ResetCall /\ ret'.arg \in Accounts) =>
          \A p \in projects :
              (\E e \in emails : /\ e.account_id = ret'.arg
                                 /\ e.project_id = Some(p.id)) =>
                  \A q \in projects' : q.id # p.id
      ]_vars

\* C23: the thread key of every parse is the first References entry of the
\* raw message when it has any, otherwise its In-Reply-To value when it has
\* one, otherwise the parsed message's own identifier.
C23_ThreadKeyPrecedence ==
    \A i \in 1..Len(parses) :
        LET raw == Unwrap(raw_data)
            key == parses[i].thread_id
        IN  IF raw.references # <<>> THEN key = raw.references[1]
            ELSE IF raw.in_reply_to # None THEN key = Unwrap(raw.in_reply_to)
            ELSE key = parses[i].parsed.message_id

\* C23 happens: a message with two References entries and an In-Reply-To was
\* parsed and keyed by its first reference.
C23_Witness ==
    /\ parses # <<>>
    /\ Unwrap(raw_data).references = <<"r1", "r2">>
    /\ Unwrap(raw_data).in_reply_to = Some("p1")
    /\ parses[1].thread_id = "r1"

\* C24: all parses of one raw message, whenever made, give the same thread
\* key.
C24_ThreadKeyDeterministic ==
    \A i \in 1..Len(parses) : \A j \in 1..Len(parses) :
        parses[i].thread_id = parses[j].thread_id

\* The stored messages of project p in thread tid.
Members(p, tid) ==
    {e \in emails : e.project_id = Some(p) /\ e.thread_id = Some(tid)}

C26_TimelineDeterministic ==
    \A i, j \in 1..Len(timelines) :
        timelines[i].project_id = timelines[j].project_id =>
            timelines[i].events = timelines[j].events


\* A text made only of white space and listed prefixes.
RECURSIVE Strippable(_)
Strippable(h) ==
    \/ h = <<>>
    \/ IsWhite(Head(h)) /\ Strippable(Tail(h))
    \/ \E i \in 1..Len(Prefixes) :
          StartsWith(h, Prefixes[i]) /\ Strippable(StripPrefix(h, Prefixes[i]))

\* n is the longest run of whole characters of r within MaxSubjectBytes.
CutOnBoundary(n, r) ==
    /\ Len(n) <= Len(r) /\ n = SubSeq(r, 1, Len(n))
    /\ Bytes(n) <= MaxSubjectBytes
    /\ n # r => Bytes(SubSeq(r, 1, Len(n) + 1)) > MaxSubjectBytes

C27_WitnessCut ==
    /\ normalized # None
    /\ Bytes(Unwrap(subject_arg)) > MaxSubjectBytes
    /\ Bytes(Unwrap(normalized)) = MaxSubjectBytes - 1


\* C28: one authenticator answers the first challenge with the credential
\* string user=<username>^Aauth=Bearer <token>^A^A and every later challenge
\* with the empty string, whatever the challenges are; the credential string
\* is sent at most once in a connect.
C28_AuthenticatorSingleUse ==
    auth_string # None =>
        LET credential ==
                <<"user=", Unwrap(auth).username, "^A",
                  "auth=Bearer ", Unwrap(auth).secret, "^A", "^A">>
        IN  /\ \A i \in 1..Len(responses) :
                  responses[i].response = IF i = 1 THEN credential ELSE <<>>
            /\ Cardinality({i \in 1..Len(responses) :
                               responses[i].response = credential}) <= 1
            /\ first_call <=> responses = <<>>

\* C28 happens: three challenges, not all the same, were answered, the first
\* with a credential string and the others with nothing.
C28_Witness ==
    /\ Len(responses) = 3
    /\ responses[1].response # <<>>
    /\ responses[2].response = <<>> /\ responses[3].response = <<>>
    /\ responses[1].challenge # responses[2].challenge

\* C29: when connect has returned and one of its steps (greeting read, OAuth
\* exchange, capability probe) ran out of time, that step is the last one
\* done and connect returned a Network error, not a session.
C29_TimeoutIsNetworkFailure ==
    conn_result # None =>
        \A i \in 1..Len(conn_steps) :
            conn_steps[i].outcome = "timeout" =>
                /\ i = Len(conn_steps)
                /\ conn_result = Some([ok |-> FALSE, err |-> "Network"])


\* How many of the run's session operations are named name.
OpCount(name) == Cardinality({i \in 1..Len(ops) : ops[i].op = name})

\* C30: within one sync run the connection, the authentication, the folder
\* selection, the UID enumeration and the logout are each issued at most
\* once, and no UID's body is fetched twice, whether its processing
\* succeeded or was skipped.
C30_NoAutomaticRetry ==
    /\ \A name \in {"connect", "authenticate", "select", "uid_fetch_uids", "logout"} :
          OpCount(name) <= 1
    /\ pc \notin {"idle", "Connecting", "Returned"} => OpCount("connect") = 1
    /\ Listed => OpCount("uid_fetch_uids") = 1
    /\ \A i, j \in 1..Len(FetchedUids(ops)) :
          i # j => FetchedUids(ops)[i] # FetchedUids(ops)[j]
    /\ \A i \in 1..Len(skipped) :
          Cardinality({k \in 1..Len(ops) :
                          ops[k] = Op("uid_fetch_body", skipped[i])}) = 1

\* C30 happens: a run over at least two UIDs completed, one of them skipped
\* after a failure and fetched once.
C30_Witness ==
    /\ pc = "Completed"
    /\ Len(uids) >= 2 /\ skipped # <<>>
    /\ OpCount("connect") = 1 /\ OpCount("uid_fetch_uids") = 1
    /\ Len(FetchedUids(ops)) = Len(uids)


\* C32: whatever sync runs, classify calls and resets have run one after the
\* other, two stored messages with the same thread key that both have a
\* project have the same project.
C32_ThreadProjectConsistent ==
    \A e1, e2 \in emails :
        (/\ e1.thread_id # None /\ e1.thread_id = e2.thread_id
         /\ e1.project_id # None /\ e2.project_id # None)
        => e1.project_id = e2.project_id

\* C32 happens: two messages of one thread are stored, both with a project,
\* while another project exists.
C32_Witness ==
    /\ Cardinality(projects) >= 2
    /\ \E e1, e2 \in emails :
          /\ e1.id # e2.id
          /\ e1.thread_id # None /\ e1.thread_id = e2.thread_id
          /\ e1.project_id # None /\ e2.project_id # None


\* C34: a step of a sync run of one account leaves every message stored for
\* another account in the store as it is, and leaves the other account's
\* cursor as it is.
C34_CrossAccountIsolation ==
    [][ (pc = "Fetching") =>
            /\ \A e \in emails : e.account_id # acct => e \in emails'
            /\ \A a \in Accounts \ {acct} :
                  get_last_synced_uid(emails', a) = get_last_synced_uid(emails, a)
      ]_vars


\* The UID list a run of account a computes when it starts on the present
\* store, mailbox and settings: cursor, range, enumeration, cap.
NextRunUids(a) ==
    LET cursor == get_last_synced_uid(emails, a)
    IN  LimitUids(fetch_uids(mailbox[a],
                             ComputeRange(cursor, select_folder(mailbox[a]),
                                          max_sync_setting)),
                  cursor, max_sync_setting)

\* C36: when a run has completed, every UID it skipped after a failure and
\* of which the account has no stored message is in the UID list of the
\* account's next run.
C36_FailedUidRetried ==
    pc = "Completed" =>
        \A i \in 1..Len(skipped) :
            RowsOf(skipped[i]) = {} =>
                \E j \in 1..Len(NextRunUids(acct)) :
                    NextRunUids(acct)[j] = skipped[i]


\* C37: no step other than an account reset lowers the cursor of any
\* account, the value get_last_synced_uid computes for it from the store.
C37_CursorMonotonic ==
    [][ ~ResetCall =>
            \A a \in Accounts :
                get_last_synced_uid(emails', a) >= get_last_synced_uid(emails, a)
      ]_vars


\* C38: in every reachable store every attachment's email_id is the id of a
\* stored message and every message's project_id, when it has one, is the id
\* of a stored project.
C38_ReferentialIntegrity ==
    /\ \A t \in attachments : \E e \in emails : e.id = t.email_id
    /\ \A e \in emails :
          e.project_id # None => \E p \in projects : p.id = Unwrap(e.project_id)

\* C38 happens: a message that has attachments and a project was fetched
\* again by a second run, whose INSERT OR REPLACE was refused.
C38_Witness ==
    /\ commands = 2 /\ pc = "Fetching" /\ skipped # <<>> /\ ~faulted
    /\ \E e \in RowsOf(skipped[1]) :
          /\ e.project_id # None
          /\ \E t \in attachments : t.email_id = e.id


\* C39: when saving the attachments of a message fails and the message is
\* skipped, the store holds neither the message's row (and so no project
\* assignment of it) nor any attachment of it.
C39_SkipLeavesNothing ==
    [][ (/\ pc = "Fetching" /\ step = "attach"
         /\ Len(skipped') = Len(skipped) + 1) =>
            /\ \A e \in emails' : e.id # email_id
            /\ \A t \in attachments' : t.email_id # email_id
      ]_vars


\* The Email events of a timeline: the top-level ones and the children of
\* its Thread events, each with the id of the event that holds it.
EmailOccurrences(ev) ==
    {[at |-> <<i>>, holder |-> <<>>, event |-> ev[i]] :
        i \in {k \in 1..Len(ev) : ev[k].kind = "Email"}}
    \cup UNION {{[at |-> <<i, c>>, holder |-> <<ev[i].id>>, event |-> ev[i].children[c]] :
                    c \in 1..Len(ev[i].children)} :
                i \in {k \in 1..Len(ev) : ev[k].kind = "Thread"}}

\* C40: every timeline returned for a project holds each message of the
\* project exactly once, top-level when the message has no thread key and
\* otherwise as a child of the one Thread event whose id is its thread key;
\* holds each milestone of the project exactly once; holds no message or
\* milestone of another project; and gives a message the list of its
\* attachment rows, absent (not empty) when it has none.
C40_TimelineComplete ==
    \A n \in 1..Len(timelines) :
        LET p == timelines[n].project_id
            ev == timelines[n].events
            occ == EmailOccurrences(ev)
        IN  /\ \A e \in emails :
                  LET mine == {o \in occ : o.event.id = <<"e", e.id>>}
                  IN  IF e.project_id = Some(p)
                      THEN /\ Cardinality(mine) = 1
                           /\ \A o \in mine :
                                 /\ o.holder = e.thread_id
                                 /\ LET rows == {t \in attachments : t.email_id = e.id}
                                    IN  IF rows = {}
                                        THEN o.event.attachments = None
                                        ELSE /\ o.event.attachments # None
                                             /\ Len(o.event.attachments[1]) = Cardinality(rows)
                                             /\ \A t \in rows :
                                                   \E k \in 1..Len(o.event.attachments[1]) :
                                                       o.event.attachments[1][k] = t
                           /\ e.thread_id # None =>
                                 Cardinality({i \in 1..Len(ev) :
                                     ev[i].kind = "Thread" /\ <<ev[i].id>> = e.thread_id}) = 1
                      ELSE mine = {}
            /\ \A o \in occ : \E e \in emails : o.event.id = <<"e", e.id>>
            /\ \A m \in milestones :
                  Cardinality({i \in 1..Len(ev) :
                      ev[i].kind = "Milestone" /\ ev[i].id = <<"m", m.id>>})
                  = IF m.project_id = p THEN 1 ELSE 0
            /\ \A i \in 1..Len(ev) :
                  ev[i].kind = "Milestone" => \E m \in milestones : ev[i].id = <<"m", m.id>>

\* A timeline of project 1 was returned while project 1 holds a message with
\* an attachment and a threaded message without one, has a milestone, and
\* project 2 holds a message of the same thread key.
C40_Witness ==
    \E n \in 1..Len(timelines) :
        /\ timelines[n].project_id = 1
        /\ \E e1, e2, e3 \in emails :
              /\ e1.project_id = Some(1) /\ e1.thread_id = None
              /\ \E t \in attachments : t.email_id = e1.id
              /\ e2.project_id = Some(1) /\ e2.thread_id = Some("t1")
              /\ ~\E t \in attachments : t.email_id = e2.id
              /\ e3.project_id = Some(2) /\ e3.thread_id = Some("t1")
        /\ \E m \in milestones : m.project_id = 1
        /\ Len(timelines[n].events) = 3


\* Call c went past the early return (its message had no project) and
\* returned Ok.
ClassifiedOk(c) ==
    /\ calls[c].pc = "done"
    /\ calls[c].email # None
    /\ calls[c].ret # None /\ Unwrap(calls[c].ret).ok

\* C33: when two classify_email calls made by the runs of different accounts
\* for two unassigned messages of one thread key have both returned, with
\* their statements interleaved in any way and no statement failing, the two
\* messages are in the same project.
C33_ConcurrentThreadConsistent ==
    \A c1, c2 \in DOMAIN calls :
        ( /\ ~faulted
          /\ ClassifiedOk(c1) /\ ClassifiedOk(c2)
          /\ Unwrap(calls[c1].email).account_id # Unwrap(calls[c2].email).account_id
          /\ Unwrap(calls[c1].email).thread_id = Unwrap(calls[c2].email).thread_id )
        => \A e1, e2 \in emails :
              (e1.id = calls[c1].email_id /\ e2.id = calls[c2].email_id)
              => e1.project_id = e2.project_id


\* C35: once every classify_email call in progress has returned Ok, with the
\* UPDATE of emails and the recount of each call interleaved in any way with
\* those of the others, every project's email_count is the number of
\* messages whose project_id names it.
C35_CountersConverge ==
    ( /\ calls # <<>>
      /\ \A c \in DOMAIN calls :
            calls[c].pc = "done" /\ calls[c].ret # None /\ Unwrap(calls[c].ret).ok )
    => \A p \in projects :
          p.email_count = Cardinality({e \in emails : e.project_id = Some(p.id)})

\* All calls returned Ok; calls 1 and 2 assigned their messages to one
\* project and both recounts stored the same count, that is, both UPDATEs of
\* emails came before both recounts; call 3 assigned a third message to it.
C35_Witness ==
    /\ calls # <<>>
    /\ \A c \in DOMAIN calls : ClassifiedOk(c)
    /\ calls[1].project_id = calls[2].project_id
    /\ calls[3].project_id = calls[1].project_id
    /\ calls[1].wrote = calls[2].wrote
    /\ \E p \in projects : p.id = calls[1].project_id /\ p.email_count = 3


\* C31: an emit_progress call, whether the run has no emitter, the observer
\* receives the event or the emission fails, changes nothing of the run, its
\* result or the store, and is over in one step: the run goes on from the
\* same state as a run whose emissions succeed.
C31_ProgressFireAndForget ==
    [][ delivered' # delivered =>
            /\ Len(delivered') = Len(delivered) + 1
            /\ emails' = emails /\ projects' = projects /\ attachments' = attachments
            /\ pc' = pc /\ ret' = ret /\ skipped' = skipped /\ current' = current
            /\ uids' = uids /\ ops' = ops /\ events' = events ]_vars

\* A run with an emitter none of whose emissions reached the observer has
\* returned Ok with a message stored and no failure injected.
C31_Witness ==
    /\ emitter # None
    /\ pc = "Completed" /\ ret.ok /\ ~faulted
    /\ emails # {}
    /\ Len(delivered) = Len(events) /\ Len(delivered) >= 2
    /\ \A i \in 1..Len(delivered) : ~delivered[i].received

====
